---- MODULE Spec2Model ----
(***************************************************************************)
(* The PDF export core of GSSDA_Web_App: Util/pdf_table.py lays a table    *)
(* out as fixed-width text lines and paginates them, Util/pdf_writer.py    *)
(* serialises the pages into a single-font PDF 1.4 document.               *)
(*                                                                         *)
(* A text (Python str) is a sequence of characters, each a one-character   *)
(* string; a character outside ASCII is written by its code point, such   *)
(* as "U+2014".  A byte string (Python bytes) is a sequence of integers    *)
(* 0..255.  Python's 0-based indices are kept in the state (offsets,       *)
(* object ids); sequences themselves are 1-based as in TLA+.               *)
(*                                                                         *)
(* Two services beside the core have specifications of their own:          *)
(* Services/token_store.py, the sliding expiry of access tokens            *)
(* (SpecAuth), and fetch_all of Services/export_fetch.py, the paged        *)
(* retrieval that feeds every export (SpecFetch).                          *)
(***************************************************************************)
EXTENDS Integers, Sequences, FiniteSets, TLC

\* st: the calls of the PDF core in progress; auth: the auth_tokens table and
\* the clock of Services/token_store.py; fetch: a fetch_all call and the
\* records it queries.
VARIABLES st, auth, fetch

vars == <<st, auth, fetch>>

(***************************************************************************)
(* Characters, numbers and bytes                                           *)
(***************************************************************************)

\* str.encode("latin-1"), per character: the code of every character the model
\* uses (ASCII without the backquote, and U+00E9, e with acute accent, for the
\* characters 128..255 that Latin-1 writes as one byte and UTF-8 as two); a
\* character that is absent has a code point above 255.
Latin1 ==
    ("\t" :> 9) @@ ("\n" :> 10) @@ ("\r" :> 13) @@ (" " :> 32) @@ ("!" :> 33) @@ ("\"" :> 34) @@
    ("#" :> 35) @@ ("$" :> 36) @@ ("%" :> 37) @@ ("&" :> 38) @@ ("'" :> 39) @@ ("(" :> 40) @@
    (")" :> 41) @@ ("*" :> 42) @@ ("+" :> 43) @@ ("," :> 44) @@ ("-" :> 45) @@ ("." :> 46) @@
    ("/" :> 47) @@ ("0" :> 48) @@ ("1" :> 49) @@ ("2" :> 50) @@ ("3" :> 51) @@ ("4" :> 52) @@
    ("5" :> 53) @@ ("6" :> 54) @@ ("7" :> 55) @@ ("8" :> 56) @@ ("9" :> 57) @@ (":" :> 58) @@
    (";" :> 59) @@ ("<" :> 60) @@ ("=" :> 61) @@ (">" :> 62) @@ ("?" :> 63) @@ ("@" :> 64) @@
    ("A" :> 65) @@ ("B" :> 66) @@ ("C" :> 67) @@ ("D" :> 68) @@ ("E" :> 69) @@ ("F" :> 70) @@
    ("G" :> 71) @@ ("H" :> 72) @@ ("I" :> 73) @@ ("J" :> 74) @@ ("K" :> 75) @@ ("L" :> 76) @@
    ("M" :> 77) @@ ("N" :> 78) @@ ("O" :> 79) @@ ("P" :> 80) @@ ("Q" :> 81) @@ ("R" :> 82) @@
    ("S" :> 83) @@ ("T" :> 84) @@ ("U" :> 85) @@ ("V" :> 86) @@ ("W" :> 87) @@ ("X" :> 88) @@
    ("Y" :> 89) @@ ("Z" :> 90) @@ ("[" :> 91) @@ ("\\" :> 92) @@ ("]" :> 93) @@ ("^" :> 94) @@
    ("_" :> 95) @@ ("a" :> 97) @@ ("b" :> 98) @@ ("c" :> 99) @@ ("d" :> 100) @@
    ("e" :> 101) @@ ("f" :> 102) @@ ("g" :> 103) @@ ("h" :> 104) @@ ("i" :> 105) @@ ("j" :> 106) @@
    ("k" :> 107) @@ ("l" :> 108) @@ ("m" :> 109) @@ ("n" :> 110) @@ ("o" :> 111) @@ ("p" :> 112) @@
    ("q" :> 113) @@ ("r" :> 114) @@ ("s" :> 115) @@ ("t" :> 116) @@ ("u" :> 117) @@ ("v" :> 118) @@
    ("w" :> 119) @@ ("x" :> 120) @@ ("y" :> 121) @@ ("z" :> 122) @@ ("{" :> 123) @@ ("|" :> 124) @@
    ("}" :> 125) @@ ("~" :> 126) @@ ("U+00E9" :> 233)

\* The value None of a cell.
NoneValue == <<"None">>

Digits == <<"0", "1", "2", "3", "4", "5", "6", "7", "8", "9">>

RECURSIVE StrNat(_)
StrNat(n) ==
    IF n < 10 THEN <<Digits[n + 1]>>
    ELSE StrNat(n \div 10) \o <<Digits[(n % 10) + 1]>>

\* str(n) / "{n}" of an int.
Str(n) == IF n < 0 THEN <<"-">> \o StrNat(0 - n) ELSE StrNat(n)

\* c * n of a one-character string c.
Repeat(c, n) == [i \in 1..n |-> c]

\* "{offset}" without the zero padding to ten digits.
Format010d_Unpadded(n) == Str(n)

\* "{offset:010d}": zero-padded to at least ten digits.
Format010d(n) ==
    LET s == Str(n)
    IN  IF Len(s) >= 10 THEN s ELSE Repeat("0", 10 - Len(s)) \o s

\* sep.join(parts)
RECURSIVE Join(_, _)
Join(parts, sep) ==
    IF Len(parts) = 0 THEN <<>>
    ELSE IF Len(parts) = 1 THEN parts[1]
    ELSE parts[1] \o sep \o Join(Tail(parts), sep)

CanEncode(text) == \A i \in 1..Len(text) : text[i] \in DOMAIN Latin1

\* text.encode("latin-1") of a text that can be encoded: one byte per character.
Encode(text) == [i \in 1..Len(text) |-> Latin1[text[i]]]

(***************************************************************************)
(* Util/pdf_writer.py: constants                                           *)
(***************************************************************************)

PAGE_WIDTH == 612

PAGE_HEIGHT == 792

MARGIN == 40

(***************************************************************************)
(* Util/pdf_table.py: the pure helpers                                     *)
(***************************************************************************)

\* The line boundaries of str.splitlines() among the model's characters.
LineBreaks == {"\n", "\r"}

\* The characters str.strip() removes among the model's characters.
Whitespace == {" ", "\t", "\n", "\r"}

\* text.splitlines(): "\r\n" is one boundary, and a boundary at the end of the
\* text opens no further line.
RECURSIVE SplitLinesFrom(_, _, _, _)
SplitLinesFrom(text, i, cur, acc) ==
    IF i > Len(text) THEN (IF cur = <<>> THEN acc ELSE Append(acc, cur))
    ELSE IF text[i] = "\r" /\ i < Len(text) /\ text[i + 1] = "\n"
         THEN SplitLinesFrom(text, i + 2, <<>>, Append(acc, cur))
    ELSE IF text[i] \in LineBreaks
         THEN SplitLinesFrom(text, i + 1, <<>>, Append(acc, cur))
    ELSE SplitLinesFrom(text, i + 1, Append(cur, text[i]), acc)

SplitLines(text) == SplitLinesFrom(text, 1, <<>>, <<>>)

RECURSIVE LStrip(_)
LStrip(s) == IF Len(s) > 0 /\ s[1] \in Whitespace THEN LStrip(Tail(s)) ELSE s

RECURSIVE RStrip(_)
RStrip(s) ==
    IF Len(s) > 0 /\ s[Len(s)] \in Whitespace
    THEN RStrip(SubSeq(s, 1, Len(s) - 1))
    ELSE s

\* part.strip()
Strip(s) == RStrip(LStrip(s))

\* _split_cell without the fallback of one empty part: splitlines() alone.
_split_cell_NoFallback(value) ==
    LET text   == IF value = NoneValue THEN <<>> ELSE value
        broken == SplitLines(text)
    IN  [i \in 1..Len(broken) |-> Strip(broken[i])]

\* _split_cell(value)
_split_cell(value) ==
    LET text   == IF value = NoneValue THEN <<>> ELSE value
        broken == SplitLines(text)
        parts  == IF broken = <<>> THEN << <<>> >> ELSE broken
    IN  [i \in 1..Len(parts) |-> Strip(parts[i])]

Max(a, b) == IF a >= b THEN a ELSE b

\* WidenByParts that looks at the first part of a cell only.
WidenByParts_FirstOnly(width, parts) ==
    IF parts = <<>> THEN width ELSE Max(width, Len(Head(parts)))

\* for part in parts: widths[index] = max(widths[index], len(part))
RECURSIVE WidenByParts(_, _)
WidenByParts(width, parts) ==
    IF parts = <<>> THEN width
    ELSE WidenByParts(Max(width, Len(Head(parts))), Tail(parts))

\* for index, parts in enumerate(row): widths[index] raises IndexError when the
\* row has a (non-empty) cell beyond the last header.
RECURSIVE WidenByRow(_, _, _)
WidenByRow(widths, row, index) ==
    IF index > Len(row) THEN [raised |-> FALSE, widths |-> widths]
    ELSE IF row[index] = <<>> THEN WidenByRow(widths, row, index + 1)
    ELSE IF index > Len(widths) THEN [raised |-> TRUE, widths |-> widths]
    ELSE WidenByRow([widths EXCEPT ![index] = WidenByParts(@, row[index])],
                    row, index + 1)

RECURSIVE WidenByRows(_, _)
WidenByRows(widths, rows) ==
    IF rows = <<>> THEN [raised |-> FALSE, widths |-> widths]
    ELSE LET r == WidenByRow(widths, Head(rows), 1)
         IN  IF r.raised THEN r ELSE WidenByRows(r.widths, Tail(rows))

\* _column_widths(headers, rows), rows being the split cells of every row.
_column_widths(headers, rows) ==
    LET r == WidenByRows([i \in 1..Len(headers) |-> Len(headers[i])], rows)
    IN  [raised |-> r.raised,
         widths |-> [i \in 1..Len(r.widths) |-> r.widths[i] + 2]]

\* LJust filling on the left, as text.rjust(width) does.
LJust_FillsLeft(text, width) ==
    IF Len(text) >= width THEN text ELSE Repeat(" ", width - Len(text)) \o text

\* text.ljust(width)
LJust(text, width) ==
    IF Len(text) >= width THEN text ELSE text \o Repeat(" ", width - Len(text))

\* _format_row(cells, widths); widths[index] raises IndexError for a cell beyond
\* the last width.
_format_row(cells, widths) ==
    IF Len(cells) > Len(widths) THEN [raised |-> TRUE, text |-> <<>>]
    ELSE [raised |-> FALSE,
          text   |-> Join([i \in 1..Len(cells) |-> LJust(cells[i], widths[i])],
                          <<" ", "|", " ">>)]

\* _separator joining the runs of dashes with "+" alone.
_separator_JoinedByPlus(widths) ==
    Join([i \in 1..Len(widths) |-> Repeat("-", widths[i])], <<"+">>)

\* _separator(widths)
_separator(widths) ==
    Join([i \in 1..Len(widths) |-> Repeat("-", widths[i])], <<"-", "+", "-">>)

\* RowHeight taking the number of parts of the first cell for the height of the row.
RowHeight_FirstCell(row_segments) ==
    IF row_segments = <<>> THEN 1 ELSE Len(row_segments[1])

\* len(parts) for the longest parts of a row, 1 for a row without cells.
RowHeight(row_segments) ==
    IF row_segments = <<>> THEN 1
    ELSE CHOOSE h \in {Len(row_segments[j]) : j \in 1..Len(row_segments)} :
            \A j \in 1..Len(row_segments) : Len(row_segments[j]) <= h

\* [parts[index] if index < len(parts) else "" for parts in row_segments], with
\* index counted from 0.
LineCells(row_segments, index) ==
    [j \in 1..Len(row_segments) |->
        IF index < Len(row_segments[j]) THEN row_segments[j][index + 1] ELSE <<>>]

\* The lines of one row: for index in range(height): lines.append(_format_row(...)).
RowLines(row_segments, col_widths) ==
    [k \in 1..RowHeight(row_segments) |->
        _format_row(LineCells(row_segments, k - 1), col_widths)]
\* _paginate_item comparing used alone, without the step of the item.
_paginate_item_IgnoresStep(pages, current, used, item) ==
    LET usable_height == PAGE_HEIGHT - (2 * MARGIN)
        step          == item.size + 4
    IN  IF current # <<>> /\ used > usable_height
        THEN [pages |-> Append(pages, current), current |-> <<item>>, used |-> step]
        ELSE [pages   |-> pages,
              current |-> Append(current, item),
              used    |-> used + step]

\* _paginate_item taking the whole page height for the usable height.
_paginate_item_NoMargins(pages, current, used, item) ==
    LET usable_height == PAGE_HEIGHT
        step          == item.size + 4
    IN  IF current # <<>> /\ used + step > usable_height
        THEN [pages |-> Append(pages, current), current |-> <<item>>, used |-> step]
        ELSE [pages   |-> pages,
              current |-> Append(current, item),
              used    |-> used + step]

\* _paginate_item that opens the new page without the item.
_paginate_item_DropsItem(pages, current, used, item) ==
    LET usable_height == PAGE_HEIGHT - (2 * MARGIN)
        step          == item.size + 4
    IN  IF current # <<>> /\ used + step > usable_height
        THEN [pages |-> Append(pages, current), current |-> <<>>, used |-> 0]
        ELSE [pages   |-> pages,
              current |-> Append(current, item),
              used    |-> used + step]

\* _paginate_item leaving a margin at the top of the page only.
_paginate_item_OneMargin(pages, current, used, item) ==
    LET usable_height == PAGE_HEIGHT - MARGIN
        step          == item.size + 4
    IN  IF current # <<>> /\ used + step > usable_height
        THEN [pages |-> Append(pages, current), current |-> <<item>>, used |-> step]
        ELSE [pages   |-> pages,
              current |-> Append(current, item),
              used    |-> used + step]

\* _paginate, lines 69-75: the place of one item.
_paginate_item(pages, current, used, item) ==
    LET usable_height == PAGE_HEIGHT - (2 * MARGIN)
        step          == item.size + 4
    IN  IF current # <<>> /\ used + step > usable_height
        THEN [pages |-> Append(pages, current), current |-> <<item>>, used |-> step]
        ELSE [pages   |-> pages,
              current |-> Append(current, item),
              used    |-> used + step]

(***************************************************************************)
(* The calls.  st[c] is the frame of call c: its entry point, its position *)
(* pc, its arguments and the locals of the functions it runs.              *)
(***************************************************************************)

Item(text, size) == [text |-> text, size |-> size]

Frame(entry, title, headers, rows, items, pages) ==
    [entry |-> entry, pc |-> entry, exc |-> "",
     title |-> title, headers |-> headers, rows |-> rows,
     splits |-> <<>>, col_widths |-> <<>>, header_line |-> <<>>,
     separator |-> <<>>, lines |-> <<>>, row_i |-> 0,
     items |-> items, pages |-> pages, current |-> <<>>, used |-> 0, item_i |-> 0,
     objects |-> <<>>, font_id |-> 0, page_refs |-> <<>>, page_i |-> 0,
     pages_id |-> 0, catalog_id |-> 0,
     fill_i |-> 0, obj_i |-> 0,
     output |-> <<>>, offsets |-> <<>>, xref_position |-> 0, total |-> 0,
     result |-> <<>>]

\* raise: the call ends with the exception.
Raise(s, exc) == [s EXCEPT !.pc = "raised", !.exc = exc]

(***************************************************************************)
(* build_pdf_table and _build_table_lines                                  *)
(***************************************************************************)

\* build_pdf_table line 13 and _build_table_lines lines 20-25.
TableLines_Begin(c) ==
    /\ st[c].pc = "build_pdf_table"
    /\ LET s      == st[c]
           splits == [r \in 1..Len(s.rows) |->
                        [j \in 1..Len(s.rows[r]) |-> _split_cell(s.rows[r][j])]]
           cw     == _column_widths(s.headers, splits)
           hl     == _format_row(s.headers, cw.widths)
           sep    == _separator(cw.widths)
       IN  st' = [st EXCEPT ![c] =
                IF cw.raised \/ hl.raised THEN Raise(s, "IndexError")
                ELSE [s EXCEPT !.pc = "table_rows", !.splits = splits,
                               !.col_widths = cw.widths, !.header_line = hl.text,
                               !.separator = sep, !.lines = <<hl.text, sep>>,
                               !.row_i = 0]]

\* _build_table_lines lines 27-32: one row.
TableLines_Row(c) ==
    /\ st[c].pc = "table_rows"
    /\ st[c].row_i < Len(st[c].splits)
    /\ LET s     == st[c]
           made  == RowLines(s.splits[s.row_i + 1], s.col_widths)
       IN  st' = [st EXCEPT ![c] =
                IF \E k \in 1..Len(made) : made[k].raised THEN Raise(s, "IndexError")
                ELSE [s EXCEPT !.lines = (@ \o [k \in 1..Len(made) |-> made[k].text])
                                            \o <<s.separator>>,
                               !.row_i = @ + 1]]

\* _build_table_lines ending without the additional separator of a table
\* without rows.
TableLines_End_NoClosingLine(c) ==
    /\ st[c].pc = "table_rows"
    /\ st[c].row_i = Len(st[c].splits)
    /\ st' = [st EXCEPT ![c] = [st[c] EXCEPT !.pc = "build_items"]]

\* _build_table_lines lines 34-36.
TableLines_End(c) ==
    /\ st[c].pc = "table_rows"
    /\ st[c].row_i = Len(st[c].splits)
    /\ LET s == st[c]
       IN  st' = [st EXCEPT ![c] =
                [s EXCEPT !.pc = "build_items",
                          !.lines = IF s.splits = <<>> THEN Append(@, s.separator)
                                    ELSE @]]

\* build_pdf_table composing the body lines at the size of the blank line.
BuildItems_BodyAt12(c) ==
    /\ st[c].pc = "build_items"
    /\ LET s == st[c]
       IN  st' = [st EXCEPT ![c] =
                [s EXCEPT !.pc = "_paginate",
                          !.items = <<Item(s.title, 16), Item(<<>>, 12)>>
                                    \o [k \in 1..Len(s.lines) |-> Item(s.lines[k], 12)]]]

\* build_pdf_table line 14.
BuildItems(c) ==
    /\ st[c].pc = "build_items"
    /\ LET s == st[c]
       IN  st' = [st EXCEPT ![c] =
                [s EXCEPT !.pc = "_paginate",
                          !.items = <<Item(s.title, 16), Item(<<>>, 12)>>
                                    \o [k \in 1..Len(s.lines) |-> Item(s.lines[k], 10)]]]

(***************************************************************************)
(* _paginate                                                               *)
(***************************************************************************)

\* _paginate lines 64-67.
Paginate_Begin(c) ==
    /\ st[c].pc = "_paginate"
    /\ st' = [st EXCEPT ![c] =
                [@ EXCEPT !.pc = "paginate_loop", !.pages = <<>>, !.current = <<>>,
                          !.used = 0, !.item_i = 0]]

\* _paginate lines 68-75: one item.
Paginate_Item(c) ==
    /\ st[c].pc = "paginate_loop"
    /\ st[c].item_i < Len(st[c].items)
    /\ LET s == st[c]
           p == _paginate_item(s.pages, s.current, s.used, s.items[s.item_i + 1])
       IN  st' = [st EXCEPT ![c] =
                [s EXCEPT !.pages = p.pages, !.current = p.current,
                          !.used = p.used, !.item_i = @ + 1]]

\* _paginate returning the pages closed so far and the current page only when
\* it holds an item, without the blank page of an empty input.
Paginate_End_NoBlankPage(c) ==
    /\ st[c].pc = "paginate_loop"
    /\ st[c].item_i = Len(st[c].items)
    /\ LET s == st[c]
       IN  st' = [st EXCEPT ![c] =
                [s EXCEPT !.pages = IF s.current = <<>> THEN @
                                    ELSE Append(@, s.current),
                          !.pc = IF s.entry = "_paginate" THEN "done"
                                 ELSE "render_pdf"]]

\* _paginate lines 76-79, and the return to build_pdf_table line 16.
Paginate_End(c) ==
    /\ st[c].pc = "paginate_loop"
    /\ st[c].item_i = Len(st[c].items)
    /\ LET s       == st[c]
           current == IF s.current = <<>> THEN <<Item(<<>>, 10)>> ELSE s.current
       IN  st' = [st EXCEPT ![c] =
                [s EXCEPT !.current = current, !.pages = Append(@, current),
                          !.pc = IF s.entry = "_paginate" THEN "done"
                                 ELSE "render_pdf"]]
\* "<< /Type /Font /Subtype /Type1 /BaseFont /Courier >>"
FontBody ==
    <<"<", "<", " ", "/", "T", "y", "p", "e", " ", "/", "F", "o", "n", "t", " ", "/",
      "S", "u", "b", "t", "y", "p", "e", " ", "/", "T", "y", "p", "e", "1", " ", "/",
      "B", "a", "s", "e", "F", "o", "n", "t", " ", "/", "C", "o", "u", "r", "i", "e",
      "r", " ", ">", ">">>

\* "<< /Length "
T_Length ==
    <<"<", "<", " ", "/", "L", "e", "n", "g", "t", "h", " ">>

\* " >>\nstream\n"
T_Stream ==
    <<" ", ">", ">", "\n", "s", "t", "r", "e", "a", "m", "\n">>

\* "\nendstream"
T_EndStream ==
    <<"\n", "e", "n", "d", "s", "t", "r", "e", "a", "m">>

\* " 0 R"
T_Ref ==
    <<" ", "0", " ", "R">>

\* "<< /Type /Pages /Count "
T_PagesCount ==
    <<"<", "<", " ", "/", "T", "y", "p", "e", " ", "/", "P", "a", "g", "e", "s", " ",
      "/", "C", "o", "u", "n", "t", " ">>

\* " /Kids ["
T_Kids ==
    <<" ", "/", "K", "i", "d", "s", " ", "[">>

\* "] >>"
T_KidsEnd ==
    <<"]", " ", ">", ">">>

\* "<< /Type /Page /Parent "
T_PageParent ==
    <<"<", "<", " ", "/", "T", "y", "p", "e", " ", "/", "P", "a", "g", "e", " ", "/",
      "P", "a", "r", "e", "n", "t", " ">>

\* " 0 R /MediaBox [0 0 "
T_MediaBox ==
    <<" ", "0", " ", "R", " ", "/", "M", "e", "d", "i", "a", "B", "o", "x", " ", "[",
      "0", " ", "0", " ">>

\* "] /Contents "
T_Contents ==
    <<"]", " ", "/", "C", "o", "n", "t", "e", "n", "t", "s", " ">>

\* " 0 R /Resources << /Font << /F1 "
T_Resources ==
    <<" ", "0", " ", "R", " ", "/", "R", "e", "s", "o", "u", "r", "c", "e", "s", " ",
      "<", "<", " ", "/", "F", "o", "n", "t", " ", "<", "<", " ", "/", "F", "1", " ">>

\* " 0 R >> >> >>"
T_PageEnd ==
    <<" ", "0", " ", "R", " ", ">", ">", " ", ">", ">", " ", ">", ">">>

\* "<< /Type /Catalog /Pages "
T_CatalogPages ==
    <<"<", "<", " ", "/", "T", "y", "p", "e", " ", "/", "C", "a", "t", "a", "l", "o",
      "g", " ", "/", "P", "a", "g", "e", "s", " ">>

\* " 0 R >>"
T_CatalogEnd ==
    <<" ", "0", " ", "R", " ", ">", ">">>

\* "BT /F1 "
T_BT ==
    <<"B", "T", " ", "/", "F", "1", " ">>

\* " Tf "
T_Tf ==
    <<" ", "T", "f", " ">>

\* " Td ("
T_Td ==
    <<" ", "T", "d", " ", "(">>

\* ") Tj ET"
T_Tj ==
    <<")", " ", "T", "j", " ", "E", "T">>

\* "%PDF-1.4\n"
T_Header ==
    <<"%", "P", "D", "F", "-", "1", ".", "4", "\n">>

\* " 0 obj\n"
T_Obj ==
    <<" ", "0", " ", "o", "b", "j", "\n">>

\* "endobj\n"
T_EndObj ==
    <<"e", "n", "d", "o", "b", "j", "\n">>

\* "xref\n0 "
T_Xref ==
    <<"x", "r", "e", "f", "\n", "0", " ">>

\* "0000000000 65535 f \n"
T_FreeEntry ==
    <<"0", "0", "0", "0", "0", "0", "0", "0", "0", "0", " ", "6", "5", "5", "3", "5",
      " ", "f", " ", "\n">>

\* " 00000 n \n"
T_InUse ==
    <<" ", "0", "0", "0", "0", "0", " ", "n", " ", "\n">>

\* "trailer\n<< /Size "
T_TrailerSize ==
    <<"t", "r", "a", "i", "l", "e", "r", "\n", "<", "<", " ", "/", "S", "i", "z", "e",
      " ">>

\* " /Root "
T_Root ==
    <<" ", "/", "R", "o", "o", "t", " ">>

\* " 0 R >>\nstartxref\n"
T_StartXref ==
    <<" ", "0", " ", "R", " ", ">", ">", "\n", "s", "t", "a", "r", "t", "x", "r", "e",
      "f", "\n">>

\* "\n%%EOF"
T_EOF ==
    <<"\n", "%", "%", "E", "O", "F">>
(***************************************************************************)
(* Util/pdf_writer.py: the pure helpers                                    *)
(***************************************************************************)

\* value.replace(old, new) for a one-character old.
RECURSIVE Replace(_, _, _)
Replace(value, old, new) ==
    IF value = <<>> THEN <<>>
    ELSE (IF Head(value) = old THEN new ELSE <<Head(value)>>)
         \o Replace(Tail(value), old, new)

\* _escape replacing the parentheses first and the backslashes last.
_escape_BackslashLast(value) ==
    Replace(Replace(Replace(value, "(", <<"\\", "(">>), ")", <<"\\", ")">>),
            "\\", <<"\\", "\\">>)

\* _escape(value)
_escape(value) ==
    Replace(Replace(Replace(value, "\\", <<"\\", "\\">>), "(", <<"\\", "(">>),
            ")", <<"\\", ")">>)

\* _build_content_stream lines 58-65: the command of one item drawn at y.
TextCommand(item, y) ==
    T_BT \o Str(item.size) \o T_Tf \o Str(MARGIN) \o <<" ">> \o Str(Max(y, MARGIN))
         \o T_Td \o _escape(item.text) \o T_Tj

\* Commands moving the cursor by the size of the item alone, without the 4
\* points between two items.
RECURSIVE Commands_NoGap(_, _)
Commands_NoGap(items, y) ==
    IF items = <<>> THEN <<>>
    ELSE <<TextCommand(Head(items), y - Head(items).size)>>
         \o Commands_NoGap(Tail(items), y - Head(items).size)

\* _build_content_stream lines 56-66: the commands of the items from cursor y.
RECURSIVE Commands(_, _)
Commands(items, y) ==
    IF items = <<>> THEN <<>>
    ELSE <<TextCommand(Head(items), y - Head(items).size)>>
         \o Commands(Tail(items), (y - Head(items).size) - 4)

\* _build_content_stream(items)
_build_content_stream(items) ==
    Join(Commands(items, PAGE_HEIGHT - MARGIN), <<"\n">>)

\* _add_object on an object table that all calls share: the objects of the other
\* calls (those whose list is not the beginning of this one) come before the new
\* one.
_add_object_SharedTable(objects, content) ==
    LET others == {c \in DOMAIN st :
                    /\ st[c].objects # <<>>
                    /\ \/ Len(st[c].objects) > Len(objects)
                       \/ st[c].objects # SubSeq(objects, 1, Len(st[c].objects))}
        RECURSIVE Slots(_)
        Slots(S) == IF S = {} THEN 0
                    ELSE LET c == CHOOSE x \in S : TRUE
                         IN  (Len(st[c].objects) - 1) + Slots(S \ {c})
    IN  [objects |-> Append(objects, content), id |-> Len(objects) + Slots(others)]

\* _add_object returning the length of the list instead of the last index.
_add_object_ReturnsLength(objects, content) ==
    [objects |-> Append(objects, content), id |-> Len(objects) + 1]

\* _add_object(objects, content): the list after the append and the id returned.
\* objects[id] of the code is objects[id + 1] here.
_add_object(objects, content) ==
    [objects |-> Append(objects, content), id |-> (Len(objects) + 1) - 1]

\* ContentBody counting the line break before "endstream" in /Length.
ContentBody_LengthWithBreak(stream) ==
    T_Length \o Str(Len(stream) + 1) \o T_Stream \o stream \o T_EndStream

\* render_pdf line 22
ContentBody(stream) ==
    T_Length \o Str(Len(stream)) \o T_Stream \o stream \o T_EndStream

\* PagesBody with the length of the joined kids text for /Count.
PagesBody_CountOfText(page_refs) ==
    LET kids == Join([k \in 1..Len(page_refs) |-> Str(page_refs[k][1]) \o T_Ref],
                     <<" ">>)
    IN  T_PagesCount \o Str(Len(kids)) \o T_Kids \o kids \o T_KidsEnd

\* render_pdf lines 30-31; a page_ref is (page_id, content_id).
PagesBody(page_refs) ==
    LET kids == Join([k \in 1..Len(page_refs) |-> Str(page_refs[k][1]) \o T_Ref],
                     <<" ">>)
    IN  T_PagesCount \o Str(Len(page_refs)) \o T_Kids \o kids \o T_KidsEnd

\* PageBody naming the catalog, the object after the page tree, as /Parent.
PageBody_ParentIsCatalog(parent, content, font) ==
    T_PageParent \o Str(parent + 1) \o T_MediaBox \o Str(PAGE_WIDTH) \o <<" ">>
        \o Str(PAGE_HEIGHT) \o T_Contents \o Str(content) \o T_Resources
        \o Str(font) \o T_PageEnd

\* render_pdf lines 33-42
PageBody(parent, content, font) ==
    T_PageParent \o Str(parent) \o T_MediaBox \o Str(PAGE_WIDTH) \o <<" ">>
        \o Str(PAGE_HEIGHT) \o T_Contents \o Str(content) \o T_Resources
        \o Str(font) \o T_PageEnd

\* render_pdf line 43
CatalogBody(pages_id) == T_CatalogPages \o Str(pages_id) \o T_CatalogEnd

\* _build_pdf_bytes lines 80-86: the bytes of object index with the given content
\* (None for a slot never filled).
ObjectBytes(index, content) ==
    LET body == Encode(IF content = NoneValue THEN <<>> ELSE content)
    IN  Encode(Str(index) \o T_Obj)
        \o body
        \o (IF Len(body) > 0 /\ body[Len(body)] = Latin1["\n"] THEN <<>>
            ELSE Encode(<<"\n">>))
        \o Encode(T_EndObj)

\* XrefBytes without the entry of object 0.
XrefBytes_NoFreeEntry(total, offsets) ==
    Encode(T_Xref \o Str(total) \o <<"\n">>)
    \o Join([k \in 1..Len(offsets) |-> Encode(Format010d(offsets[k]) \o T_InUse)],
            <<>>)

\* _build_pdf_bytes lines 90-93
XrefBytes(total, offsets) ==
    Encode(T_Xref \o Str(total) \o <<"\n">>)
    \o Encode(T_FreeEntry)
    \o Join([k \in 1..Len(offsets) |-> Encode(Format010d(offsets[k]) \o T_InUse)],
            <<>>)

\* _build_pdf_bytes lines 95-96
TrailerBytes(total, catalog_id, xref_position) ==
    Encode(T_TrailerSize \o Str(total) \o T_Root \o Str(catalog_id) \o T_StartXref
           \o Str(xref_position) \o T_EOF)

(***************************************************************************)
(* render_pdf                                                              *)
(***************************************************************************)

\* render_pdf lines 16-19
Render_Begin(c) ==
    /\ st[c].pc = "render_pdf"
    /\ LET a == _add_object(<<NoneValue>>, FontBody)
       IN  st' = [st EXCEPT ![c] =
                [@ EXCEPT !.pc = "render_pages", !.objects = a.objects,
                          !.font_id = a.id, !.page_refs = <<>>, !.page_i = 0]]

\* render_pdf refusing a page without items instead of drawing an empty stream.
Render_Page_RejectsEmpty(c) ==
    /\ st[c].pc = "render_pages"
    /\ st[c].page_i < Len(st[c].pages)
    /\ LET s       == st[c]
           stream  == _build_content_stream(s.pages[s.page_i + 1])
           content == _add_object(s.objects, ContentBody(stream))
           page    == _add_object(content.objects, NoneValue)
       IN  st' = [st EXCEPT ![c] =
                IF s.pages[s.page_i + 1] = <<>> THEN Raise(s, "ValueError")
                ELSE [s EXCEPT !.objects = page.objects,
                               !.page_refs = Append(@, <<page.id, content.id>>),
                               !.page_i = @ + 1]]

\* render_pdf lines 20-25: one page.
Render_Page(c) ==
    /\ st[c].pc = "render_pages"
    /\ st[c].page_i < Len(st[c].pages)
    /\ LET s       == st[c]
           stream  == _build_content_stream(s.pages[s.page_i + 1])
           content == _add_object(s.objects, ContentBody(stream))
           page    == _add_object(content.objects, NoneValue)
       IN  st' = [st EXCEPT ![c] =
                [s EXCEPT !.objects = page.objects,
                          !.page_refs = Append(@, <<page.id, content.id>>),
                          !.page_i = @ + 1]]

\* render_pdf lines 27-28
Render_Reserve(c) ==
    /\ st[c].pc = "render_pages"
    /\ st[c].page_i = Len(st[c].pages)
    /\ LET s       == st[c]
           pages   == _add_object(s.objects, NoneValue)
           catalog == _add_object(pages.objects, NoneValue)
       IN  st' = [st EXCEPT ![c] =
                [s EXCEPT !.pc = "fill_pages", !.objects = catalog.objects,
                          !.pages_id = pages.id, !.catalog_id = catalog.id]]

\* render_pdf lines 30-31
Render_FillPages(c) ==
    /\ st[c].pc = "fill_pages"
    /\ LET s == st[c]
       IN  st' = [st EXCEPT ![c] =
                [s EXCEPT !.pc = "fill_page", !.fill_i = 0,
                          !.objects[s.pages_id + 1] = PagesBody(s.page_refs)]]

\* render_pdf lines 32-42: one page dictionary.
Render_FillPage(c) ==
    /\ st[c].pc = "fill_page"
    /\ st[c].fill_i < Len(st[c].page_refs)
    /\ LET s   == st[c]
           ref == s.page_refs[s.fill_i + 1]
       IN  st' = [st EXCEPT ![c] =
                [s EXCEPT !.fill_i = @ + 1,
                          !.objects[ref[1] + 1] =
                              PageBody(s.pages_id, ref[2], s.font_id)]]

\* render_pdf going on to _build_pdf_bytes without the body of the catalog.
Render_FillCatalog_LeavesPlaceholder(c) ==
    /\ st[c].pc = "fill_page"
    /\ st[c].fill_i = Len(st[c].page_refs)
    /\ st' = [st EXCEPT ![c] = [@ EXCEPT !.pc = "_build_pdf_bytes"]]

\* render_pdf lines 43-45
Render_FillCatalog(c) ==
    /\ st[c].pc = "fill_page"
    /\ st[c].fill_i = Len(st[c].page_refs)
    /\ LET s == st[c]
       IN  st' = [st EXCEPT ![c] =
                [s EXCEPT !.pc = "_build_pdf_bytes",
                          !.objects[s.catalog_id + 1] = CatalogBody(s.pages_id)]]

(***************************************************************************)
(* _build_pdf_bytes                                                        *)
(***************************************************************************)

\* _build_pdf_bytes writing to a buffer that the calls share: what another call
\* has written so far comes before the header.
Bytes_Begin_SharedBuffer(c) ==
    /\ st[c].pc = "_build_pdf_bytes"
    /\ LET others == {d \in DOMAIN st \ {c} : st[d].output # <<>>}
           before == IF others = {} THEN <<>>
                     ELSE st[CHOOSE d \in others : TRUE].output
       IN  st' = [st EXCEPT ![c] =
                    [@ EXCEPT !.pc = "bytes_objects",
                              !.output = before \o Encode(T_Header),
                              !.offsets = <<>>, !.obj_i = 1]]

\* _build_pdf_bytes lines 75-78
Bytes_Begin(c) ==
    /\ st[c].pc = "_build_pdf_bytes"
    /\ st' = [st EXCEPT ![c] =
                [@ EXCEPT !.pc = "bytes_objects", !.output = Encode(T_Header),
                          !.offsets = <<>>, !.obj_i = 1]]

\* _build_pdf_bytes lines 79-86: one object; encoding its body raises
\* UnicodeEncodeError for a character outside Latin-1.
Bytes_Object(c) ==
    /\ st[c].pc = "bytes_objects"
    /\ st[c].obj_i < Len(st[c].objects)
    /\ LET s       == st[c]
           content == s.objects[s.obj_i + 1]
       IN  st' = [st EXCEPT ![c] =
                IF content # NoneValue /\ ~CanEncode(content)
                THEN [Raise(s, "UnicodeEncodeError") EXCEPT
                          !.offsets = Append(@, Len(s.output)),
                          !.output = @ \o Encode(Str(s.obj_i) \o T_Obj)]
                ELSE [s EXCEPT !.offsets = Append(@, Len(s.output)),
                               !.output = @ \o ObjectBytes(s.obj_i, content),
                               !.obj_i = @ + 1]]

\* _build_pdf_bytes lines 88-93
Bytes_Xref(c) ==
    /\ st[c].pc = "bytes_objects"
    /\ st[c].obj_i = Len(st[c].objects)
    /\ LET s == st[c]
       IN  st' = [st EXCEPT ![c] =
                [s EXCEPT !.pc = "bytes_trailer", !.xref_position = Len(s.output),
                          !.total = Len(s.objects),
                          !.output = @ \o XrefBytes(Len(s.objects), s.offsets)]]

\* _build_pdf_bytes lines 95-97, and the returns of render_pdf and
\* build_pdf_table.
Bytes_Trailer(c) ==
    /\ st[c].pc = "bytes_trailer"
    /\ LET s   == st[c]
           out == s.output \o TrailerBytes(s.total, s.catalog_id, s.xref_position)
       IN  st' = [st EXCEPT ![c] =
                [s EXCEPT !.pc = "done", !.output = out, !.result = out]]
(***************************************************************************)
(* The calls the model makes: the arguments of each entry point            *)
(***************************************************************************)

\* Rows per table, for the tables whose rows are chosen one by one.
MaxRows == 2

\* Rows of the long tables, which fill more than one page, and how many row
\* counts below it are tried.
MaxLongRows == 25

LongWindow == 3

\* Items of a direct _paginate call.
MaxItems == 61

\* Pages of a direct render_pdf call.
MaxPages == 4

SeqsUpTo(S, n) == UNION {[1..k -> S] : k \in 0..n}

Titles == {<<"T">>, <<"(", "T", ")", "\\">>}

HeaderChoices == {<<<<"I", "D">>, <<"N", "a", "m", "e">>>>, <<<<"H">>>>}

\* ["1", "Alice"] and ["2", "Bob and a very long name"]
ExampleRow1 == <<<<"1">>, <<"A", "l", "i", "c", "e">>>>

ExampleRow2 ==
    <<<<"2">>, <<"B", "o", "b", " ", "a", "n", "d", " ", "a", " ", "v", "e", "r",
                 "y", " ", "l", "o", "n", "g", " ", "n", "a", "m", "e">>>>

\* [None, "a\n bc()\\ \r\n"]: a cell of two lines, the second one longer
MultiLineRow ==
    <<NoneValue, <<"a", "\n", " ", "b", "c", "(", ")", "\\", " ", "\r", "\n">>>>

\* The callers cell of event_row: the labels joined by ", ", or an em dash when
\* the event has no caller.
EventCallersCell(caller_labels) ==
    IF caller_labels # <<>> THEN Join(caller_labels, <<",", " ">>) ELSE <<"U+2014">>

\* str.strip(chars)
RECURSIVE StripOf(_, _)
StripOf(s, chars) ==
    IF s = <<>> THEN <<>>
    ELSE IF Head(s) \in chars THEN StripOf(Tail(s), chars)
    ELSE IF s[Len(s)] \in chars THEN StripOf(SubSeq(s, 1, Len(s) - 1), chars)
    ELSE s

\* format_description, from the two labels format_datetime returned and the
\* text (<<>> for None or ""): the range is written with an en dash.
format_description(start_label, end_label, text) ==
    IF start_label # <<>> \/ end_label # <<>>
    THEN LET range_part ==
                 StripOf(start_label \o <<" ", "U+2013", " ">> \o end_label,
                         {" ", "U+2013"})
         IN  StripOf(range_part \o <<":", " ">> \o text, {" ", ":"})
    ELSE text

\* A row of event_row for an event without callers, and a row whose second
\* cell is a description line from 9 to 10.
NoCallersRow == <<<<"1">>, EventCallersCell(<<>>)>>

DescriptionRow == <<<<"1">>, format_description(<<"9">>, <<"1", "0">>, <<"a">>)>>

\* A cell with parentheses and a backslash: Name (Jr.)\
EscapeRow ==
    <<<<"1">>, <<"N", "a", "m", "e", " ", "(", "J", "r", ".", ")", "\\">>>>

\* A cell with a character of Latin-1 outside ASCII: Jos\u00e9
AccentRow ==
    <<<<"2">>, <<"J", "o", "s", "U+00E9">>>>

\* Cells of line breaks and blanks only, of consecutive breaks, of a break at
\* either end.
BreaksRow ==
    <<<<"\n">>, <<" ", "\t">>, <<"a", "\r", "\r", "b">>, <<"\n", "\n", " ", "x", " ">>>>

\* Tables outside the product of TableCalls: no headers at all, a row with no
\* cells, a row of one cell under two headers, the rows above.
SpecialTableCalls ==
    {Frame("build_pdf_table", <<"T">>, h, rows, <<>>, <<>>) :
        h \in {<<<<"I", "D">>, <<"N", "a", "m", "e">>>>},
        rows \in {<<<<>>>>, <<<<<<"7">>>>, ExampleRow1>>, <<<<>>, MultiLineRow>>,
                  <<NoCallersRow>>, <<DescriptionRow>>, <<EscapeRow>>,
                  <<ExampleRow1, EscapeRow>>, <<AccentRow>>}}
    \cup {Frame("build_pdf_table", <<"T">>, <<>>, rows, <<>>, <<>>) :
              rows \in {<<>>, <<<<>>>>, <<<<>>, <<>>>>}}
    \cup {Frame("build_pdf_table", <<"T">>,
                <<<<"A">>, <<"B">>, <<"C">>, <<"D">>>>, <<BreaksRow>>, <<>>, <<>>)}

\* One page whose third item falls below the bottom margin.
TallPage ==
    <<Item(<<"a">>, 300), Item(<<"b">>, 300), Item(<<"c">>, 300), Item(<<"d">>, 10)>>

RowChoices ==
    {ExampleRow1,
     ExampleRow2,
     MultiLineRow,
     <<<<"7", "7", "7">>>>,
     <<<<"1">>, <<"2">>, <<"3">>>>,
     <<EventCallersCell(<<>>), <<>>>>}

LongRowChoices == {<<<<"a">>>>, <<<<"a", "\n", "b", "\n", "c">>>>}

\* The sizes of the items of a direct _paginate call: those of lead, then those
\* of cycle over and over.  16, 16, 12, 12, ... fills a page exactly (2 * 20 +
\* 42 * 16 = 712).
SizePatterns ==
    {[lead |-> <<>>, cycle |-> <<10>>],
     [lead |-> <<>>, cycle |-> <<16>>],
     [lead |-> <<16, 12>>, cycle |-> <<10>>],
     [lead |-> <<16, 16>>, cycle |-> <<12>>],
     [lead |-> <<>>, cycle |-> <<16, 12, 10>>]}

PatternSize(p, i) ==
    IF i <= Len(p.lead) THEN p.lead[i]
    ELSE p.cycle[((i - Len(p.lead) - 1) % Len(p.cycle)) + 1]

PageChoices ==
    {<<>>,
     <<Item(<<>>, 10)>>,
     <<Item(<<"(", "a", ")", "\\">>, 16), Item(<<"b">>, 12)>>}

TableCalls ==
    {Frame("build_pdf_table", t, h, rows, <<>>, <<>>) :
        t \in Titles, h \in HeaderChoices, rows \in SeqsUpTo(RowChoices, MaxRows)}

LongTableCalls ==
    {Frame("build_pdf_table", <<"T">>, <<<<"H">>>>, [i \in 1..n |-> r], <<>>, <<>>) :
        r \in LongRowChoices, n \in (MaxLongRows - LongWindow)..MaxLongRows}

PaginateCalls ==
    {Frame("_paginate", <<>>, <<>>, <<>>,
           [i \in 1..n |-> Item(Str(i), PatternSize(p, i))], <<>>) :
        p \in SizePatterns, n \in 0..MaxItems}

RenderCalls ==
    {Frame("render_pdf", <<>>, <<>>, <<>>, <<>>, pages) :
        pages \in SeqsUpTo(PageChoices, MaxPages)}
    \cup {Frame("render_pdf", <<>>, <<>>, <<>>, <<>>, <<TallPage>>)}

Calls ==
    TableCalls \cup SpecialTableCalls \cup LongTableCalls
        \cup PaginateCalls \cup RenderCalls

(***************************************************************************)
(* One call                                                                *)
(***************************************************************************)

\* The calls of a behaviour: call 1 under Spec, calls 1 and 2 under SpecTwo.
CallIds == {1, 2}

Live(c) == c \in DOMAIN st

\* The token store and fetch_all at rest, for the specifications of the PDF core.
AtRest == <<>>

Init == st \in [{1} -> Calls] /\ auth = AtRest /\ fetch = AtRest

Next ==
    \/ \E c \in CallIds : Live(c) /\ TableLines_Begin(c) /\ UNCHANGED <<auth, fetch>>
    \/ \E c \in CallIds : Live(c) /\ TableLines_Row(c) /\ UNCHANGED <<auth, fetch>>
    \/ \E c \in CallIds : Live(c) /\ TableLines_End(c) /\ UNCHANGED <<auth, fetch>>
    \/ \E c \in CallIds : Live(c) /\ BuildItems(c) /\ UNCHANGED <<auth, fetch>>
    \/ \E c \in CallIds : Live(c) /\ Paginate_Begin(c) /\ UNCHANGED <<auth, fetch>>
    \/ \E c \in CallIds : Live(c) /\ Paginate_Item(c) /\ UNCHANGED <<auth, fetch>>
    \/ \E c \in CallIds : Live(c) /\ Paginate_End(c) /\ UNCHANGED <<auth, fetch>>
    \/ \E c \in CallIds : Live(c) /\ Render_Begin(c) /\ UNCHANGED <<auth, fetch>>
    \/ \E c \in CallIds : Live(c) /\ Render_Page(c) /\ UNCHANGED <<auth, fetch>>
    \/ \E c \in CallIds : Live(c) /\ Render_Reserve(c) /\ UNCHANGED <<auth, fetch>>
    \/ \E c \in CallIds : Live(c) /\ Render_FillPages(c) /\ UNCHANGED <<auth, fetch>>
    \/ \E c \in CallIds : Live(c) /\ Render_FillPage(c) /\ UNCHANGED <<auth, fetch>>
    \/ \E c \in CallIds : Live(c) /\ Render_FillCatalog(c) /\ UNCHANGED <<auth, fetch>>
    \/ \E c \in CallIds : Live(c) /\ Bytes_Begin(c) /\ UNCHANGED <<auth, fetch>>
    \/ \E c \in CallIds : Live(c) /\ Bytes_Object(c) /\ UNCHANGED <<auth, fetch>>
    \/ \E c \in CallIds : Live(c) /\ Bytes_Xref(c) /\ UNCHANGED <<auth, fetch>>
    \/ \E c \in CallIds : Live(c) /\ Bytes_Trailer(c) /\ UNCHANGED <<auth, fetch>>

Spec == Init /\ [][Next]_vars


(***************************************************************************)
(* Two calls, interleaved step by step                                     *)
(***************************************************************************)

\* The arguments of the two calls: a table of two columns with a cell of two
\* lines, a table of two columns with one row, a table whose row has more cells
\* than headers, two direct _paginate calls and two direct render_pdf calls.
TwoCalls ==
    {Frame("build_pdf_table", <<"T">>, <<<<"I", "D">>, <<"N", "a", "m", "e">>>>,
           <<MultiLineRow>>, <<>>, <<>>),
     Frame("build_pdf_table", <<"T">>, <<<<"I", "D">>, <<"N", "a", "m", "e">>>>,
           <<ExampleRow1>>, <<>>, <<>>),
     Frame("build_pdf_table", <<"T">>, <<<<"H">>>>, <<ExampleRow1>>, <<>>, <<>>),
     Frame("_paginate", <<>>, <<>>, <<>>, <<>>, <<>>),
     Frame("_paginate", <<>>, <<>>, <<>>, <<Item(<<"a">>, 16), Item(<<>>, 10)>>, <<>>),
     Frame("render_pdf", <<>>, <<>>, <<>>, <<>>, <<<<Item(<<"(">>, 10)>>>>),
     Frame("render_pdf", <<>>, <<>>, <<>>, <<>>,
           <<<<Item(<<"a">>, 16)>>, <<Item(<<"U+2014">>, 12)>>>>)}

InitTwo == st \in [{1, 2} -> TwoCalls] /\ auth = AtRest /\ fetch = AtRest

SpecTwo == InitTwo /\ [][Next]_vars
(***************************************************************************)
(* Reading a document back: what a PDF reader does with the bytes          *)
(***************************************************************************)

\* Whether pat occurs in bytes at the 0-based position p.
OccursAt(bytes, p, pat) ==
    /\ p >= 0
    /\ p + Len(pat) <= Len(bytes)
    /\ SubSeq(bytes, p + 1, p + Len(pat)) = pat

\* The 0-based position of the last occurrence of pat in bytes at or before p, -1
\* without one: a reader looks for the trailer from the end of the file.
RECURSIVE FindBack(_, _, _)
FindBack(bytes, pat, p) ==
    IF p < 0 THEN -1
    ELSE IF OccursAt(bytes, p, pat) THEN p
    ELSE FindBack(bytes, pat, p - 1)

FindLast(bytes, pat) == FindBack(bytes, pat, Len(bytes) - Len(pat))

IsDigitByte(b) == b \in 48..57

\* The number of digit bytes at the 0-based position p and after it.
RECURSIVE DigitRun(_, _)
DigitRun(bytes, p) ==
    IF p < Len(bytes) /\ IsDigitByte(bytes[p + 1]) THEN 1 + DigitRun(bytes, p + 1)
    ELSE 0

RECURSIVE DigitsValue(_, _, _, _)
DigitsValue(bytes, p, n, acc) ==
    IF n = 0 THEN acc
    ELSE DigitsValue(bytes, p + 1, n - 1, (10 * acc) + (bytes[p + 1] - 48))

\* The decimal number written at the 0-based position p, -1 without a digit
\* there.
NumberAt(bytes, p) ==
    IF DigitRun(bytes, p) = 0 THEN -1
    ELSE DigitsValue(bytes, p, DigitRun(bytes, p), 0)

\* The number after the last occurrence of the keyword.
NumberAfterLast(bytes, keyword) ==
    IF FindLast(bytes, Encode(keyword)) < 0 THEN -1
    ELSE NumberAt(bytes, FindLast(bytes, Encode(keyword)) + Len(keyword))

\* What a reader finds in the trailer and the cross-reference section of a
\* document: the position after startxref, the number of entries the subsection
\* header announces, /Size, /Root and the offset each 20-byte entry records
\* (entry 0 is the free entry).
ReadXref(doc) ==
    LET startxref == NumberAfterLast(doc, <<"s", "t", "a", "r", "t", "x", "r", "e", "f", "\n">>)
        header    == startxref + Len(T_Xref)
        entries   == header + DigitRun(doc, header) + 1
        count     == NumberAt(doc, header)
    IN  [startxref |-> startxref,
         at_xref   |-> OccursAt(doc, startxref, Encode(T_Xref)),
         count     |-> count,
         size      |-> NumberAfterLast(doc, <<"/", "S", "i", "z", "e", " ">>),
         root      |-> NumberAfterLast(doc, <<"/", "R", "o", "o", "t", " ">>),
         offset    |-> [id \in 1..(count - 1) |-> NumberAt(doc, entries + (20 * id))]]

\* The position of the body of object id, given the offset of the object: after
\* its "<id> 0 obj" line.
BodyAt(offset, id) == offset + Len(Str(id)) + Len(T_Obj)

\* The number of times byte b occurs in bytes at the 0-based positions from..to-1.
CountByte(bytes, from, to, b) ==
    Cardinality({p \in from..(to - 1) : bytes[p + 1] = b})

\* The 0-based position of the first byte b at or after p.
FirstByte(bytes, p, b) ==
    CHOOSE q \in p..(Len(bytes) - 1) :
        /\ bytes[q + 1] = b
        /\ \A r \in p..(q - 1) : bytes[r + 1] # b

\* A call that has returned a document, and the document.
Returned(c) ==
    /\ c \in DOMAIN st
    /\ st[c].pc = "done"
    /\ st[c].entry \in {"build_pdf_table", "render_pdf"}

Doc(c) == st[c].result

\* The number of indirect objects of the document of call c.
ObjectCount(c) == Len(st[c].objects) - 1

(***************************************************************************)
(* Claims                                                                  *)
(***************************************************************************)

\* C1 Xref integrity: in every document render_pdf returns, for every object id
\* i in 1..N the offset written in the cross-reference entry of i is the offset
\* recorded for i, and at that offset of the emitted bytes a line begins that
\* reads "<i> 0 obj".
C1_XrefIntegrity ==
    \A c \in CallIds : Returned(c) =>
        LET x == ReadXref(Doc(c))
        IN  /\ x.at_xref
            /\ x.count = ObjectCount(c) + 1
            /\ \A i \in 1..ObjectCount(c) :
                /\ x.offset[i] = st[c].offsets[i]
                /\ OccursAt(Doc(c), x.offset[i], Encode(Str(i) \o T_Obj))
                /\ Doc(c)[x.offset[i]] = Latin1["\n"]

\* A document of eleven objects (two-digit ids) with text in it has been
\* returned.
C1_Witness ==
    /\ Returned(1)
    /\ ObjectCount(1) = 11
    /\ \E k \in 1..Len(st[1].pages) : Len(st[1].pages[k]) = 2

\* The reference a dictionary of the document makes under the key at the
\* 0-based position p: the number of "<key><n> 0 R", -1 when the bytes at p are
\* not of this form.
RefAt(doc, p, key) ==
    IF /\ OccursAt(doc, p, Encode(key))
       /\ OccursAt(doc, p + Len(key) + DigitRun(doc, p + Len(key)), Encode(T_Ref))
    THEN NumberAt(doc, p + Len(key))
    ELSE -1

\* What a reader finds following the document from its trailer: the catalog
\* /Root names, the page tree the catalog names under /Pages, the /Count of the
\* page tree and the number of references in its /Kids.
ReadTree(doc) ==
    LET x     == ReadXref(doc)
        tree  == RefAt(doc, BodyAt(x.offset[x.root], x.root), T_CatalogPages)
        body  == BodyAt(x.offset[tree], tree)
        open  == FirstByte(doc, body, Latin1["["])
    IN  [root  |-> x.root,
         tree  |-> tree,
         count |-> IF OccursAt(doc, body, Encode(T_PagesCount))
                   THEN NumberAt(doc, body + Len(T_PagesCount))
                   ELSE -1,
         kids  |-> CountByte(doc, open, FirstByte(doc, open, Latin1["]"]), Latin1["R"])]

\* C2 Structural round-trip: in every document returned, the trailer's /Root is
\* the id of the catalog, the catalog's /Pages is the id of the page tree, and the
\* page tree's /Kids has /Count entries, as many as the pages handed to
\* render_pdf (for build_pdf_table: the pages _paginate returned).
C2_RoundTrip ==
    \A c \in CallIds : Returned(c) =>
        LET t == ReadTree(Doc(c))
        IN  /\ t.root = st[c].catalog_id
            /\ t.tree = st[c].pages_id
            /\ t.tree # t.root
            /\ t.count = Len(st[c].pages)
            /\ t.kids = t.count

\* build_pdf_table has returned a document of three pages.
C2_Witness ==
    /\ Returned(1)
    /\ st[1].entry = "build_pdf_table"
    /\ Len(st[1].pages) = 3

\* The arguments of call c, and how far it has come.
Args(c) ==
    <<st[c].entry, st[c].title, st[c].headers, st[c].rows,
      IF st[c].entry = "_paginate" THEN st[c].items ELSE <<>>,
      IF st[c].entry = "render_pdf" THEN st[c].pages ELSE <<>>>>

Position(c) ==
    <<st[c].pc, st[c].row_i, st[c].item_i, st[c].page_i, st[c].fill_i, st[c].obj_i>>

Ended(c) == st[c].pc \in {"done", "raised"}

C4_EmptyPagesSynthesized ==
    \A c \in CallIds :
        (Returned(c) /\ st[c].entry = "render_pdf" /\ st[c].pages = <<>>) =>
            /\ ReadTree(Doc(c)).count = 1
            /\ ReadTree(Doc(c)).kids = 1
            /\ ObjectCount(c) = 5

\* C5 Object ids: for P >= 1 pages render_pdf allocates 2P+3 objects: the font is
\* 1, the content stream of page k is 2k and its page dictionary 2k+1, the page
\* tree is 2P+2 and the catalog 2P+3, each slot holding an object of that kind;
\* the cross-reference header and the trailer /Size both state 2P+4.
C5_ObjectIds ==
    \A c \in CallIds : (Returned(c) /\ Len(st[c].pages) >= 1) =>
        LET P == Len(st[c].pages)
            body(id) == st[c].objects[id + 1]
            starts(id, prefix) == SubSeq(body(id), 1, Len(prefix)) = prefix
        IN  /\ ObjectCount(c) = (2 * P) + 3
            /\ st[c].font_id = 1
            /\ body(1) = FontBody
            /\ \A k \in 1..P :
                /\ st[c].page_refs[k] = <<(2 * k) + 1, 2 * k>>
                /\ starts(2 * k, T_Length)
                /\ starts((2 * k) + 1, T_PageParent)
            /\ st[c].pages_id = (2 * P) + 2
            /\ starts((2 * P) + 2, T_PagesCount)
            /\ st[c].catalog_id = (2 * P) + 3
            /\ starts((2 * P) + 3, T_CatalogPages)
            /\ ReadXref(Doc(c)).count = (2 * P) + 4
            /\ ReadXref(Doc(c)).size = (2 * P) + 4

\* render_pdf has returned the document of four pages.
C5_Witness ==
    /\ Returned(1)
    /\ st[1].entry = "render_pdf"
    /\ Len(st[1].pages) = 4

\* A call that has come back from _paginate: its pages are what _paginate returned
\* for its items.
Paginated(c) ==
    /\ c \in DOMAIN st
    /\ st[c].entry \in {"build_pdf_table", "_paginate"}
    /\ st[c].pc \in {"render_pdf", "render_pages", "fill_pages", "fill_page",
                     "_build_pdf_bytes", "bytes_objects", "bytes_trailer", "done"}

\* The layout cost of a page: the sum of size + 4 over its items.
RECURSIVE Cost(_)
Cost(page) == IF page = <<>> THEN 0 ELSE (Head(page).size + 4) + Cost(Tail(page))

RECURSIVE Flatten(_)
Flatten(pages) == IF pages = <<>> THEN <<>> ELSE Head(pages) \o Flatten(Tail(pages))

AllOfSize(items, size) == \A i \in 1..Len(items) : items[i].size = size

\* The step of _paginate over one item follows the rule: a new page starts with
\* the item exactly when the current page is not empty and used + size + 4 > 712,
\* otherwise the item joins the current page.
C6_Rule ==
    \A c \in CallIds :
        (c \in DOMAIN st /\ st[c].pc = "paginate_loop"
            /\ st'[c].item_i = st[c].item_i + 1) =>
            LET item == st[c].items[st[c].item_i + 1]
            IN  IF st[c].current # <<>> /\ st[c].used + (item.size + 4) > 712
                THEN /\ st'[c].pages = Append(st[c].pages, st[c].current)
                     /\ st'[c].current = <<item>>
                ELSE /\ st'[c].pages = st[c].pages
                     /\ st'[c].current = Append(st[c].current, item)

\* Every page break is forced: the first item of a page would not have fit on
\* the page before it.
C6_Forced ==
    \A c \in CallIds : Paginated(c) =>
        \A k \in 1..(Len(st[c].pages) - 1) :
            Cost(st[c].pages[k]) + (st[c].pages[k + 1][1].size + 4) > 712

\* 30 items of size 10 give one page; 60 give two, the 51st first on page 2.
C6_Boundary ==
    \A c \in CallIds : (Paginated(c) /\ AllOfSize(st[c].items, 10)) =>
        /\ Len(st[c].items) = 30 => Len(st[c].pages) = 1
        /\ Len(st[c].items) = 60 =>
            /\ Len(st[c].pages) = 2
            /\ Len(st[c].pages[1]) = 50
            /\ st[c].pages[2][1] = st[c].items[51]

\* C6 Pagination rule and boundary (page height 792, margin 40, usable 712):
\* every step of _paginate follows the rule of C6_Rule, every page break is
\* forced, and 30 and 60 items of size 10 give one page and two pages, the 51st
\* item first on page 2.
C6_PaginationRule == [][C6_Rule]_vars /\ [](C6_Forced /\ C6_Boundary)

\* _paginate has returned two pages for 60 items of size 10.
C6_Witness ==
    /\ Paginated(1)
    /\ Len(st[1].items) = 60
    /\ AllOfSize(st[1].items, 10)
    /\ Len(st[1].pages) = 2

\* C7 Every page _paginate returns for items of sizes 16, 12 and 10 is non-empty
\* and its layout cost is at most the usable height 712 = 792 - 2 * 40.
C7_PagesFit ==
    \A c \in CallIds :
        (Paginated(c) /\ \A i \in 1..Len(st[c].items) : st[c].items[i].size \in {16, 12, 10})
            => \A k \in 1..Len(st[c].pages) :
                /\ st[c].pages[k] # <<>>
                /\ Cost(st[c].pages[k]) <= 712
                /\ Cost(st[c].pages[k]) <= PAGE_HEIGHT - (2 * MARGIN)

\* _paginate has returned more than one page, the first filled to exactly 712.
C7_Witness ==
    /\ Paginated(1)
    /\ Len(st[1].pages) >= 2
    /\ Cost(st[1].pages[1]) = 712

\* C8 The pages _paginate returns for a non-empty item sequence, concatenated in
\* order, are exactly the items: nothing dropped, duplicated, reordered or
\* inserted.  For build_pdf_table the title, the blank line, the header line and
\* the first separator are the first four items of page 1 and occur nowhere
\* again as a page's leading items: every later page starts with the item after
\* the last item of the page before it.
C8_PagesConcatenate ==
    \A c \in CallIds : (Paginated(c) /\ st[c].items # <<>>) =>
        /\ Flatten(st[c].pages) = st[c].items
        /\ st[c].entry = "build_pdf_table" =>
            /\ SubSeq(st[c].pages[1], 1, 4)
                 = <<Item(st[c].title, 16), Item(<<>>, 12),
                     Item(st[c].header_line, 10), Item(st[c].separator, 10)>>
            /\ \A k \in 2..Len(st[c].pages) :
                st[c].pages[k][1]
                  = st[c].items[Len(Flatten(SubSeq(st[c].pages, 1, k - 1))) + 1]

\* build_pdf_table has paginated a table onto several pages, and page 2 starts in
\* the middle of a row of three lines: page 1 does not end with a separator.
C8_Witness ==
    /\ Paginated(1)
    /\ st[1].entry = "build_pdf_table"
    /\ Len(st[1].pages) >= 2
    /\ st[1].pages[1][Len(st[1].pages[1])].text # st[1].separator
    /\ st[1].pages[2][1].text # st[1].separator

\* A call of build_pdf_table that has computed its column widths: it is past
\* _build_table_lines line 21 and _column_widths did not raise.
TableLaidOut(c) ==
    /\ c \in DOMAIN st
    /\ st[c].entry = "build_pdf_table"
    /\ st[c].pc # "build_pdf_table"
    /\ ~(st[c].pc = "raised" /\ st[c].exc = "IndexError")

\* The lengths of the header of column j and of every part of every cell the rows
\* have in column j.
ColumnLengths(headers, splits, j) ==
    {Len(headers[j])}
        \cup UNION {{Len(splits[r][j][i]) : i \in 1..Len(splits[r][j])} :
                        r \in {q \in 1..Len(splits) : j <= Len(splits[q])}}

SetMax(S) == CHOOSE m \in S : \A x \in S : x <= m

\* C9 Column width: the width of every column j is 2 more than the largest
\* length among its header and the trimmed parts of all cells of column j in all
\* rows, and it has this value, computed from the whole table, at every point
\* from the first formatted line on; without rows it is the header length + 2;
\* for the table ID/Name, 1/Alice, 2/Bob and a very long name column 2 has width
\* 24 + 2.
C9_ColumnWidths ==
    \A c \in CallIds : TableLaidOut(c) =>
        /\ Len(st[c].col_widths) = Len(st[c].headers)
        /\ \A j \in 1..Len(st[c].headers) :
            /\ st[c].col_widths[j]
                 = SetMax(ColumnLengths(st[c].headers, st[c].splits, j)) + 2
            /\ st[c].rows = <<>> => st[c].col_widths[j] = Len(st[c].headers[j]) + 2
        /\ (/\ st[c].headers = <<<<"I", "D">>, <<"N", "a", "m", "e">>>>
            /\ st[c].rows = <<ExampleRow1, ExampleRow2>>)
                => st[c].col_widths[2] = Len(ExampleRow2[2]) + 2

\* The widths are in use for the header line while the rows wait to be
\* formatted, and the last row holds the longest text of column 2.
C9_Witness ==
    /\ TableLaidOut(1)
    /\ st[1].pc = "table_rows"
    /\ st[1].row_i = 0
    /\ st[1].lines = <<st[1].header_line, st[1].separator>>
    /\ st[1].rows = <<ExampleRow1, ExampleRow2>>
    /\ st[1].col_widths = <<4, 26>>

RECURSIVE SumTo(_, _)
SumTo(widths, n) == IF n = 0 THEN 0 ELSE widths[n] + SumTo(widths, n - 1)

\* The 1-based place of the first character of column j in a formatted line.
ColumnStart(widths, j) == 1 + SumTo(widths, j - 1) + (3 * (j - 1))

\* The line holds one cell per column: the text of column j, then spaces up to
\* widths[j] characters, and " | " between two columns.
LineOfCells(line, cells, widths) ==
    /\ Len(line) = SumTo(widths, Len(widths))
                    + (IF Len(widths) = 0 THEN 0 ELSE 3 * (Len(widths) - 1))
    /\ \A j \in 1..Len(widths) :
        /\ Len(cells[j]) <= widths[j]
        /\ SubSeq(line, ColumnStart(widths, j),
                  ColumnStart(widths, j) + Len(cells[j]) - 1) = cells[j]
        /\ \A k \in (ColumnStart(widths, j) + Len(cells[j]))
                    ..(ColumnStart(widths, j) + widths[j] - 1) : line[k] = " "
        /\ j < Len(widths) =>
            SubSeq(line, ColumnStart(widths, j) + widths[j],
                   ColumnStart(widths, j) + widths[j] + 2) = <<" ", "|", " ">>

\* The number of lines of row r: the largest number of parts of its cells.
HeightOf(splits, r) ==
    IF splits[r] = <<>> THEN 1
    ELSE SetMax({Len(splits[r][j]) : j \in 1..Len(splits[r])})

RECURSIVE LinesBefore(_, _)
LinesBefore(splits, r) ==
    IF r = 1 THEN 2 ELSE LinesBefore(splits, r - 1) + HeightOf(splits, r - 1) + 1

PartOrBlank(parts, i) == IF i <= Len(parts) THEN parts[i] ELSE <<>>

SeparatorOf(line, widths) ==
    /\ Len(line) = SumTo(widths, Len(widths))
                    + (IF Len(widths) = 0 THEN 0 ELSE 3 * (Len(widths) - 1))
    /\ \A j \in 1..Len(widths) :
        /\ \A k \in ColumnStart(widths, j)..(ColumnStart(widths, j) + widths[j] - 1) :
            line[k] = "-"
        /\ j < Len(widths) =>
            SubSeq(line, ColumnStart(widths, j) + widths[j],
                   ColumnStart(widths, j) + widths[j] + 2) = <<"-", "+", "-">>

\* C11 buildLines emits, in order: the formatted header line, one separator,
\* then for each row h formatted lines, h being the largest number of parts of
\* a cell of the row and at least 1, line i carrying in column j the i-th part
\* of cell j or "" when the cell has fewer parts, and exactly one separator
\* after the lines of each row; with n rows formatted the number of lines is
\* 2 + the sum of (h_row + 1) over these rows, so that of a table with rows is
\* 2 + the sum over all its rows.
C11_BuildLines ==
    \A c \in CallIds : TableLaidOut(c) =>
        LET s == st[c]
        IN  /\ LineOfCells(s.lines[1], s.headers, s.col_widths)
            /\ SeparatorOf(s.lines[2], s.col_widths)
            /\ \A r \in 1..s.row_i :
                /\ HeightOf(s.splits, r) >= 1
                /\ \A i \in 1..HeightOf(s.splits, r) :
                    LineOfCells(s.lines[LinesBefore(s.splits, r) + i],
                                [j \in 1..Len(s.splits[r]) |->
                                    PartOrBlank(s.splits[r][j], i)],
                                SubSeq(s.col_widths, 1, Len(s.splits[r])))
                /\ SeparatorOf(s.lines[LinesBefore(s.splits, r)
                                        + HeightOf(s.splits, r) + 1],
                               s.col_widths)
            /\ s.pc = "table_rows" => Len(s.lines) = LinesBefore(s.splits, s.row_i + 1)
            /\ (s.pc # "table_rows" /\ s.rows # <<>>) =>
                /\ s.row_i = Len(s.rows)
                /\ Len(s.lines) = LinesBefore(s.splits, Len(s.rows) + 1)

\* The lines of a table are complete: a row without cells gave one line, a row
\* with a cell of two parts gave two, each with its separator.
C11_Witness ==
    /\ TableLaidOut(1)
    /\ st[1].pc = "build_items"
    /\ st[1].rows = <<<<>>, MultiLineRow>>
    /\ Len(st[1].lines) = 2 + (1 + 1) + (2 + 1)

\* C12 Empty table: for any headers and rows = [], _build_table_lines returns
\* exactly [header line, separator, separator], the pages composed of it are one
\* page, and the document returned has exactly one page: a page tree of /Count 1
\* with one kid, 5 objects.
C12_EmptyTable ==
    \A c \in CallIds :
        (/\ TableLaidOut(c)
         /\ st[c].rows = <<>>
         /\ st[c].pc # "table_rows") =>
            LET s == st[c]
            IN  /\ Len(s.lines) = 3
                /\ LineOfCells(s.lines[1], s.headers, s.col_widths)
                /\ SeparatorOf(s.lines[2], s.col_widths)
                /\ s.lines[3] = s.lines[2]
                /\ \A j \in 1..Len(s.headers) : s.col_widths[j] = Len(s.headers[j]) + 2
                /\ Paginated(c) => Len(s.pages) = 1 /\ Len(s.pages[1]) = 5
                /\ Returned(c) =>
                    /\ ReadTree(Doc(c)).count = 1
                    /\ ReadTree(Doc(c)).kids = 1
                    /\ ObjectCount(c) = 5

\* The document of a table of two headers and no rows has been returned.
C12_Witness ==
    /\ Returned(1)
    /\ st[1].entry = "build_pdf_table"
    /\ st[1].headers = <<<<"I", "D">>, <<"N", "a", "m", "e">>>>
    /\ st[1].rows = <<>>
    /\ Len(st[1].lines) = 3

\* What one character stands for in a PDF literal string.
EscapeChar(ch) ==
    IF ch \in {"\\", "(", ")"} THEN <<"\\", ch>> ELSE <<ch>>

RECURSIVE EscapeEach(_)
EscapeEach(text) ==
    IF text = <<>> THEN <<>> ELSE EscapeChar(Head(text)) \o EscapeEach(Tail(text))

\* Reading a literal string back: a backslash stands for the character after it.
RECURSIVE Unescape(_)
Unescape(text) ==
    IF text = <<>> THEN <<>>
    ELSE IF Head(text) = "\\" /\ Len(text) >= 2
         THEN <<text[2]>> \o Unescape(SubSeq(text, 3, Len(text)))
         ELSE <<Head(text)>> \o Unescape(Tail(text))

\* The stream of a content object: what lies between " >>\nstream\n" and
\* "\nendstream".
StreamOf(body) ==
    LET at == CHOOSE p \in Len(T_Length)..Len(body) :
                  /\ OccursAt(body, p, T_Stream)
                  /\ \A q \in Len(T_Length)..(p - 1) : ~OccursAt(body, q, T_Stream)
    IN  SubSeq(body, at + Len(T_Stream) + 1, Len(body) - Len(T_EndStream))

\* The pieces of text between the occurrences of the character sep.
SplitAt(text, sep) ==
    LET at     == {p \in 1..Len(text) : text[p] = sep}
        nth(k) == CHOOSE p \in at : Cardinality({q \in at : q < p}) = k - 1
        n      == Cardinality(at)
    IN  [k \in 1..(n + 1) |->
            SubSeq(text,
                   IF k = 1 THEN 1 ELSE nth(k - 1) + 1,
                   IF k = n + 1 THEN Len(text) ELSE nth(k) - 1)]

EndsWith(text, tail) ==
    /\ Len(tail) <= Len(text)
    /\ SubSeq(text, Len(text) - Len(tail) + 1, Len(text)) = tail

\* The commands of the content stream of page k of call c, one per line.
CommandsOf(c, k) ==
    SplitAt(StreamOf(st[c].objects[st[c].page_refs[k][2] + 1]), "\n")

\* Name \(Jr.\)\\
EscapedExample ==
    <<"N", "a", "m", "e", " ", "\\", "(", "J", "r", ".", "\\", ")", "\\", "\\">>

\* C13 Escaping: for every text drawn, _escape gives the character-by-character
\* substitution (backslash to two backslashes, "(" to "\(", ")" to "\)"), from
\* which the text is recovered by reading a backslash as a quote of the next
\* character, and it is this text that stands between "(" and ") Tj ET" in the
\* command of the item in the content stream of its page; the cell Name (Jr.)\
\* is in the content stream as Name \(Jr.\)\\.
C13_Escaping ==
    \A c \in CallIds : Live(c) =>
        /\ \A k \in 1..Len(st[c].page_refs) :
            LET page == st[c].pages[k]
                cmds == CommandsOf(c, k)
            IN  /\ page # <<>> => Len(cmds) = Len(page)
                /\ \A i \in 1..Len(page) :
                    /\ _escape(page[i].text) = EscapeEach(page[i].text)
                    /\ Unescape(_escape(page[i].text)) = page[i].text
                    /\ EndsWith(cmds[i], T_Td \o EscapeEach(page[i].text) \o T_Tj)
        /\ (st[c].rows = <<EscapeRow>> /\ st[c].page_refs # <<>>) =>
            LET stream == StreamOf(st[c].objects[st[c].page_refs[1][2] + 1])
            IN  \E p \in 0..Len(stream) : OccursAt(stream, p, EscapedExample)

\* The document of the table with the cell Name (Jr.)\ has been returned.
C13_Witness ==
    /\ Returned(1)
    /\ st[1].rows = <<EscapeRow>>
    /\ Len(st[1].pages) = 1
    /\ \E i \in 1..Len(st[1].pages[1]) :
        \E p \in 0..Len(st[1].pages[1][i].text) :
            OccursAt(st[1].pages[1][i].text, p, EscapeRow[2])

\* C14 The core is total on well-formed input: a build_pdf_table call whose rows
\* all have as many cells as there are headers, the cells being None or strings
\* of any characters, the em dash of event_row and the en dash of
\* format_description among them, never raises, and when it ends it has
\* returned bytes.
C14_Total ==
    \A c \in CallIds :
        (/\ Live(c)
         /\ st[c].entry = "build_pdf_table"
         /\ \A r \in 1..Len(st[c].rows) : Len(st[c].rows[r]) = Len(st[c].headers)) =>
            /\ st[c].pc # "raised"
            /\ st[c].pc = "done" => st[c].result # <<>>

\* C15 A row with fewer cells than headers is formatted without error and its
\* missing trailing cells are rendered as blanks: every line of that row holds
\* one cell filled with spaces for each header column, blank where the row has
\* no cell, and is as long as the header line.
C15_ShortRows ==
    \A c \in CallIds :
        (/\ Live(c)
         /\ st[c].entry = "build_pdf_table"
         /\ \A r \in 1..Len(st[c].rows) : Len(st[c].rows[r]) <= Len(st[c].headers)) =>
            /\ ~(st[c].pc = "raised" /\ st[c].exc = "IndexError")
            /\ st[c].pc # "build_pdf_table" =>
                \A r \in 1..st[c].row_i :
                    Len(st[c].splits[r]) < Len(st[c].headers) =>
                        \A i \in 1..HeightOf(st[c].splits, r) :
                            LET line == st[c].lines[LinesBefore(st[c].splits, r) + i]
                            IN  /\ Len(line) = Len(st[c].lines[1])
                                /\ LineOfCells(line,
                                       [j \in 1..Len(st[c].headers) |->
                                           IF j <= Len(st[c].splits[r])
                                           THEN PartOrBlank(st[c].splits[r][j], i)
                                           ELSE <<>>],
                                       st[c].col_widths)

\* The text without the whitespace at its two ends.
TrimOf(s) ==
    LET inked == {p \in 1..Len(s) : s[p] \notin Whitespace}
    IN  IF inked = {} THEN <<>>
        ELSE SubSeq(s, CHOOSE p \in inked : \A q \in inked : p <= q,
                       CHOOSE p \in inked : \A q \in inked : q <= p)

\* The places where a line of the text ends: every "\n", and every "\r" that no
\* "\n" follows.
LineEnds(text) ==
    {p \in 1..Len(text) :
        \/ text[p] = "\n"
        \/ text[p] = "\r" /\ ~(p < Len(text) /\ text[p + 1] = "\n")}

\* The lines of the text, trimmed: line k runs from the end of line k - 1 to the
\* k-th line end, and what follows the last line end is a line if it is not
\* empty.  A text without any line is one empty part.
TrimmedLines(text) ==
    LET ends   == LineEnds(text)
        n      == Cardinality(ends)
        end(k) == IF k = 0 THEN 0
                  ELSE IF k = n + 1 THEN Len(text) + 1
                  ELSE CHOOSE p \in ends : Cardinality({q \in ends : q < p}) = k - 1
        count  == IF end(n) = Len(text) THEN n ELSE n + 1
    IN  IF count = 0 THEN << <<>> >>
        ELSE [k \in 1..count |-> TrimOf(SubSeq(text, end(k - 1) + 1, end(k) - 1))]

\* C16 _split_cell never returns an empty sequence: None and a value with no
\* content give [""], a value without line breaks gives exactly one part (the
\* value trimmed), otherwise the parts are the lines of the value in order, and
\* every part is free of whitespace at both ends and of line breaks.
C16_SplitCell ==
    \A c \in CallIds : TableLaidOut(c) =>
        /\ Len(st[c].splits) = Len(st[c].rows)
        /\ \A r \in 1..Len(st[c].rows) :
            /\ Len(st[c].splits[r]) = Len(st[c].rows[r])
            /\ \A j \in 1..Len(st[c].rows[r]) :
                LET value == st[c].rows[r][j]
                    parts == st[c].splits[r][j]
                IN  /\ Len(parts) >= 1
                    /\ value \in {NoneValue, <<>>} => parts = << <<>> >>
                    /\ (value # NoneValue
                        /\ \A p \in 1..Len(value) : value[p] \notin LineBreaks)
                            => parts = <<TrimOf(value)>>
                    /\ value # NoneValue => parts = TrimmedLines(value)
                    /\ \A i \in 1..Len(parts) :
                        /\ parts[i] = TrimOf(parts[i])
                        /\ \A p \in 1..Len(parts[i]) : parts[i][p] \notin LineBreaks

\* A row of cells made of line breaks, of blanks and of texts between line
\* breaks has been split.
C16_Witness ==
    /\ TableLaidOut(1)
    /\ st[1].rows = <<BreaksRow>>
    /\ st[1].splits[1] = << << <<>> >>, << <<>> >>, <<<<"a">>, <<>>, <<"b">>>>,
                            << <<>>, <<>>, <<"x">> >> >>

\* A call run alone, from its arguments to its return: _build_table_lines.
RECURSIVE AloneRows(_, _, _)
AloneRows(splits, col_widths, separator) ==
    IF splits = <<>> THEN <<>>
    ELSE LET made == RowLines(Head(splits), col_widths)
         IN  [k \in 1..Len(made) |-> made[k].text] \o <<separator>>
                 \o AloneRows(Tail(splits), col_widths, separator)

AloneLines(headers, rows) ==
    LET splits == [r \in 1..Len(rows) |->
                      [j \in 1..Len(rows[r]) |-> _split_cell(rows[r][j])]]
        cw     == _column_widths(headers, splits)
        hl     == _format_row(headers, cw.widths)
        sep    == _separator(cw.widths)
    IN  IF cw.raised \/ hl.raised THEN [exc |-> "IndexError", lines |-> <<>>]
        ELSE [exc   |-> "",
              lines |-> <<hl.text, sep>> \o AloneRows(splits, cw.widths, sep)
                            \o (IF rows = <<>> THEN <<sep>> ELSE <<>>)]

\* _paginate run alone.
RECURSIVE AlonePages(_, _, _, _)
AlonePages(pages, current, used, items) ==
    IF items = <<>>
    THEN Append(pages, IF current = <<>> THEN <<Item(<<>>, 10)>> ELSE current)
    ELSE LET p == _paginate_item(pages, current, used, Head(items))
         IN  AlonePages(p.pages, p.current, p.used, Tail(items))

\* render_pdf run alone: the object table before serialization.
RECURSIVE AloneAddPages(_, _, _)
AloneAddPages(objects, page_refs, pages) ==
    IF pages = <<>> THEN [objects |-> objects, page_refs |-> page_refs]
    ELSE LET content == _add_object(objects,
                                    ContentBody(_build_content_stream(Head(pages))))
             page    == _add_object(content.objects, NoneValue)
         IN  AloneAddPages(page.objects, Append(page_refs, <<page.id, content.id>>),
                           Tail(pages))

AloneObjects(pages) ==
    LET font    == _add_object(<<NoneValue>>, FontBody)
        added   == AloneAddPages(font.objects, <<>>, pages)
        tree    == _add_object(added.objects, NoneValue)
        catalog == _add_object(tree.objects, NoneValue)
        refs    == added.page_refs
    IN  [catalog_id |-> catalog.id,
         objects    |->
            [i \in 1..Len(catalog.objects) |->
                IF i = tree.id + 1 THEN PagesBody(refs)
                ELSE IF i = catalog.id + 1 THEN CatalogBody(tree.id)
                ELSE IF \E k \in 1..Len(refs) : refs[k][1] + 1 = i
                     THEN PageBody(tree.id,
                                   refs[CHOOSE k \in 1..Len(refs) : refs[k][1] + 1 = i][2],
                                   font.id)
                ELSE catalog.objects[i]]]

\* _build_pdf_bytes run alone.
RECURSIVE AloneWrite(_, _, _, _)
AloneWrite(objects, index, output, offsets) ==
    IF index >= Len(objects) THEN [exc |-> "", output |-> output, offsets |-> offsets]
    ELSE IF objects[index + 1] # NoneValue /\ ~CanEncode(objects[index + 1])
         THEN [exc |-> "UnicodeEncodeError", output |-> <<>>, offsets |-> <<>>]
    ELSE AloneWrite(objects, index + 1,
                    output \o ObjectBytes(index, objects[index + 1]),
                    Append(offsets, Len(output)))

AloneDocument(pages) ==
    LET o == AloneObjects(pages)
        w == AloneWrite(o.objects, 1, Encode(T_Header), <<>>)
    IN  IF w.exc # "" THEN [exc |-> w.exc, result |-> <<>>]
        ELSE [exc    |-> "",
              result |-> w.output \o XrefBytes(Len(o.objects), w.offsets)
                             \o TrailerBytes(Len(o.objects), o.catalog_id,
                                             Len(w.output))]

\* build_pdf_table run alone: the exception it raises ("" for none) and the
\* bytes it returns.
AloneTable(title, headers, rows) ==
    LET l == AloneLines(headers, rows)
    IN  IF l.exc # "" THEN [exc |-> l.exc, result |-> <<>>]
        ELSE AloneDocument(
                 AlonePages(<<>>, <<>>, 0,
                            <<Item(title, 16), Item(<<>>, 12)>>
                                \o [k \in 1..Len(l.lines) |-> Item(l.lines[k], 10)]))

\* A step is a step of one call: it leaves the frame of every other call as it
\* is.
C17_OwnFrame ==
    \E c \in CallIds : \A d \in DOMAIN st \ {c} : st'[d] = st[d]

\* Every build_pdf_table call that has ended has raised what it raises alone
\* and returned the bytes it returns alone.
C17_AsAlone ==
    \A c \in CallIds :
        (Live(c) /\ Ended(c) /\ st[c].entry = "build_pdf_table") =>
            LET alone == AloneTable(st[c].title, st[c].headers, st[c].rows)
            IN  /\ st[c].exc = alone.exc
                /\ st[c].result = alone.result

\* C17 Concurrent export calls are independent: every step of a call reads and
\* writes the object table, the offset list and the byte buffer of that call
\* alone, so under every interleaving of the steps of two calls each
\* build_pdf_table call returns exactly the bytes it returns when it runs alone
\* (and raises what it raises alone).
C17_Independence == [][C17_OwnFrame]_vars /\ []C17_AsAlone

\* A call has returned the document of its table, the one it returns alone,
\* while the other call, building another table, is in the middle of writing
\* its objects.
C17_Witness ==
    /\ Returned(1)
    /\ st[1].entry = "build_pdf_table"
    /\ st[1].result = AloneTable(st[1].title, st[1].headers, st[1].rows).result
    /\ st[2].entry = "build_pdf_table"
    /\ st[2].rows # st[1].rows
    /\ st[2].pc = "bytes_objects"
    /\ st[2].obj_i = 3

\* The call has composed its items.
Composed(c) ==
    /\ TableLaidOut(c)
    /\ st[c].pc \notin {"table_rows", "build_items"}

\* C18 build_pdf_table composes the items [(title, 16), ("", 12)] followed by
\* one (line, 10) for each line of _build_table_lines in order; so every item
\* handed to _paginate, and every item of the pages handed to render_pdf, has a
\* size in {16, 12, 10}, and 16 and 12 are the sizes of the first two items
\* only, which open the first page.
C18_Compose ==
    \A c \in CallIds : Composed(c) =>
        LET s == st[c]
        IN  /\ Len(s.items) = Len(s.lines) + 2
            /\ s.items[1] = [text |-> s.title, size |-> 16]
            /\ s.items[2] = [text |-> <<>>, size |-> 12]
            /\ \A k \in 1..Len(s.lines) :
                s.items[k + 2] = [text |-> s.lines[k], size |-> 10]
            /\ \A k \in 1..Len(s.items) :
                /\ s.items[k].size \in {16, 12, 10}
                /\ s.items[k].size \in {16, 12} => k <= 2
            /\ Paginated(c) =>
                \A p \in 1..Len(s.pages) : \A i \in 1..Len(s.pages[p]) :
                    /\ s.pages[p][i].size \in {16, 12, 10}
                    /\ s.pages[p][i].size \in {16, 12} => (p = 1 /\ i <= 2)

\* The items of a table of two rows are on their page, ready for render_pdf:
\* the title, the blank line and six lines.
C18_Witness ==
    /\ Composed(1)
    /\ st[1].pc = "render_pdf"
    /\ st[1].rows = <<ExampleRow1, ExampleRow2>>
    /\ Len(st[1].items) = 8
    /\ st[1].pages = <<st[1].items>>

\* size_0 + ... + size_i for the first n items of a page.
RECURSIVE SizesTo(_, _)
SizesTo(page, n) == IF n = 0 THEN 0 ELSE page[n].size + SizesTo(page, n - 1)

\* The vertical position of the n-th item of a page, n counted from 1.
PositionOf(page, n) ==
    LET y == (752 - SizesTo(page, n)) - (4 * (n - 1))
    IN  IF y >= 40 THEN y ELSE 40

\* C19 Content-stream layout: the content stream of a page of items
\* (text_0, size_0) .. (text_n, size_n) is one text-show command per item, in
\* order, one per line: "BT /F1 <size_i> Tf 40 <y_i> Td (<escaped text_i>) Tj ET"
\* with y_i = max(752 - (size_0 + ... + size_i) - 4*i, 40); the stream of a page
\* without items is empty.
C19_ContentLayout ==
    \A c \in CallIds : Live(c) =>
        \A k \in 1..Len(st[c].page_refs) :
            LET page   == st[c].pages[k]
                stream == StreamOf(st[c].objects[st[c].page_refs[k][2] + 1])
                cmds   == SplitAt(stream, "\n")
            IN  /\ page = <<>> => stream = <<>>
                /\ page # <<>> => Len(cmds) = Len(page)
                /\ \A i \in 1..Len(page) :
                    cmds[i] = T_BT \o Str(page[i].size) \o T_Tf
                                \o <<"4", "0", " ">> \o Str(PositionOf(page, i))
                                \o T_Td \o EscapeEach(page[i].text) \o T_Tj

\* The document of a page whose third and fourth items fall below the bottom
\* margin, and are drawn at 40, has been returned.
C19_Witness ==
    /\ Returned(1)
    /\ st[1].pages = <<TallPage>>
    /\ PositionOf(TallPage, 2) = 148
    /\ (752 - SizesTo(TallPage, 3)) - 8 < 40

DigitChars == {Digits[d] : d \in 1..10}

\* The number a text of digits writes.
RECURSIVE NumberOf(_)
NumberOf(text) ==
    IF text = <<>> THEN 0
    ELSE (10 * NumberOf(SubSeq(text, 1, Len(text) - 1)))
         + ((CHOOSE d \in 1..10 : Digits[d] = text[Len(text)]) - 1)

\* The digits of the text that end at place p, and those that begin at place p.
RECURSIVE DigitsEndingAt(_, _)
DigitsEndingAt(text, p) ==
    IF p >= 1 /\ text[p] \in DigitChars
    THEN Append(DigitsEndingAt(text, p - 1), text[p])
    ELSE <<>>

RECURSIVE DigitsFrom(_, _)
DigitsFrom(text, p) ==
    IF p <= Len(text) /\ text[p] \in DigitChars
    THEN <<text[p]>> \o DigitsFrom(text, p + 1)
    ELSE <<>>

\* The ids of all references "N 0 R" of an object body.
RefsIn(body) ==
    {NumberOf(DigitsEndingAt(body, p)) :
        p \in {q \in 1..Len(body) :
                  OccursAt(body, q, T_Ref) /\ body[q] \in DigitChars}}

\* The id of the reference that follows the key in a dictionary, -1 if the key
\* is not followed by a reference.
RefOfKey(body, key) ==
    LET at == {p \in 0..Len(body) : OccursAt(body, p, key)}
    IN  IF at = {} THEN -1
        ELSE LET p      == CHOOSE q \in at : \A r \in at : q <= r
                 digits == DigitsFrom(body, p + Len(key) + 1)
             IN  IF digits # <<>>
                    /\ OccursAt(body, p + Len(key) + Len(digits), T_Ref)
                 THEN NumberOf(digits)
                 ELSE -1

\* The ids between "[" and "]" of a page tree, in the order written.
KidsOf(body) ==
    LET open   == CHOOSE p \in 1..Len(body) :
                      body[p] = "[" /\ \A q \in 1..(p - 1) : body[q] # "["
        close  == CHOOSE p \in 1..Len(body) :
                      body[p] = "]" /\ \A q \in 1..(p - 1) : body[q] # "]"
        tokens == SplitAt(SubSeq(body, open + 1, close - 1), " ")
    IN  [k \in 1..(Len(tokens) \div 3) |-> NumberOf(tokens[(3 * k) - 2])]

IsPageDictionary(body) == body # NoneValue /\ OccursAt(body, 0, T_PageParent)

IsPageTree(body) == body # NoneValue /\ OccursAt(body, 0, T_PagesCount)

IsContentStream(body) == body # NoneValue /\ OccursAt(body, 0, T_Length)

\* "/Parent ", "/Contents ", "/F1 " and "/MediaBox [0 0 612 792]"
K_Parent == <<"/", "P", "a", "r", "e", "n", "t", " ">>

K_Contents == <<"/", "C", "o", "n", "t", "e", "n", "t", "s", " ">>

K_F1 == <<"/", "F", "1", " ">>

K_MediaBox ==
    <<"/", "M", "e", "d", "i", "a", "B", "o", "x", " ", "[", "0", " ", "0", " ",
      "6", "1", "2", " ", "7", "9", "2", "]">>

\* render_pdf has filled its object table and _build_pdf_bytes has it.
Serializing(c) ==
    /\ c \in DOMAIN st
    /\ st[c].entry \in {"build_pdf_table", "render_pdf"}
    /\ \/ st[c].pc \in {"_build_pdf_bytes", "bytes_objects", "bytes_trailer", "done"}
       \/ st[c].pc = "raised" /\ st[c].exc = "UnicodeEncodeError"

\* C20 Reference graph: when serialization begins, and until the call ends, the
\* object table of P pages has the ids 1..2P+3, all filled, and every reference
\* "N 0 R" of every object body names one of them; the page tree's /Kids are P
\* ids in increasing order, the k-th being the page dictionary of page k, whose
\* /Parent is the page tree, whose /Contents is the object allocated just before
\* it, a content stream, that of page k, whose /F1 is object 1, the font, and whose
\* MediaBox is [0 0 612 792]; there is no page dictionary outside /Kids and
\* the catalog's /Pages is the page tree.
C20_ReferenceGraph ==
    \A c \in CallIds : Serializing(c) =>
        LET objects == st[c].objects
            n       == Len(objects) - 1
            P       == Len(st[c].pages)
            trees   == {id \in 1..n : IsPageTree(objects[id + 1])}
        IN  /\ n = (2 * P) + 3
            /\ \A id \in 1..n :
                /\ objects[id + 1] # NoneValue
                /\ RefsIn(objects[id + 1]) \subseteq 1..n
            /\ objects[2] = FontBody
            /\ Cardinality(trees) = 1
            /\ \A tree \in trees :
                LET kids == KidsOf(objects[tree + 1])
                IN  /\ Len(kids) = P
                    /\ RefOfKey(objects[n + 1], T_CatalogPages) = tree
                    /\ {id \in 1..n : IsPageDictionary(objects[id + 1])}
                         = {kids[k] : k \in 1..P}
                    /\ \A k \in 1..P :
                        LET page == objects[kids[k] + 1]
                        IN  /\ k > 1 => kids[k - 1] < kids[k]
                            /\ IsPageDictionary(page)
                            /\ RefOfKey(page, K_Parent) = tree
                            /\ RefOfKey(page, K_Contents) = kids[k] - 1
                            /\ IsContentStream(objects[kids[k]])
                            /\ kids[k] - 1 = st[c].page_refs[k][2]
                            /\ RefOfKey(page, K_F1) = 1
                            /\ \E p \in 0..Len(page) : OccursAt(page, p, K_MediaBox)

\* Serialization of a document of three pages begins: 9 objects, all filled,
\* the dictionary of page 3 naming the page tree 8, its stream 6 and the font 1.
C20_Witness ==
    /\ Serializing(1)
    /\ st[1].pc = "_build_pdf_bytes"
    /\ Len(st[1].pages) = 3
    /\ Len(st[1].objects) = 10
    /\ RefsIn(st[1].objects[8]) = {8, 6, 1}

\* C21 Cross-reference section and trailer layout: the document is the 9-byte
\* header, then the objects 1..N one after the other in ascending order, each
\* "<id> 0 obj\n", its body, a newline and "endobj\n"; then, where the number
\* after startxref says, "xref\n0 <N+1>\n" and N+1 entries of exactly 20 bytes:
\* the free entry of id 0 first, then for each id in ascending order ten digits
\* and " 00000 n \n", the offsets strictly increasing from 9; then the trailer
\* up to "%%EOF".
C21_XrefLayout ==
    \A c \in CallIds : Returned(c) =>
        LET doc     == Doc(c)
            N       == ObjectCount(c)
            x       == ReadXref(doc)
            entries == x.startxref + Len(T_Xref) + Len(Str(N + 1)) + 1
            end(i)  == IF i = N THEN x.startxref ELSE x.offset[i + 1]
        IN  /\ OccursAt(doc, 0, Encode(T_Header))
            /\ Len(T_Header) = 9
            /\ x.count = N + 1
            /\ x.offset[1] = 9
            /\ \A i \in 1..N :
                LET body == Encode(st[c].objects[i + 1])
                    from == x.offset[i]
                IN  /\ from < end(i)
                    /\ SubSeq(doc, from + 1, end(i))
                         = Encode(Str(i) \o T_Obj) \o body
                             \o Encode(<<"\n">>) \o Encode(T_EndObj)
            /\ x.at_xref
            /\ OccursAt(doc, x.startxref, Encode(T_Xref \o Str(N + 1) \o <<"\n">>))
            /\ OccursAt(doc, entries, Encode(T_FreeEntry))
            /\ Len(T_FreeEntry) = 20
            /\ \A i \in 1..N :
                /\ DigitRun(doc, entries + (20 * i)) = 10
                /\ OccursAt(doc, entries + (20 * i) + 10, Encode(T_InUse))
                /\ Len(T_InUse) = 10
            /\ OccursAt(doc, entries + (20 * (N + 1)), Encode(T_TrailerSize))
            /\ OccursAt(doc, Len(doc) - Len(T_EOF), Encode(T_EOF))

\* The document of two pages has been returned: 7 objects from offset 9 on and
\* the cross-reference section after the last of them.
C21_Witness ==
    /\ Returned(1)
    /\ ObjectCount(1) = 7
    /\ ReadXref(Doc(1)).offset[1] = 9
    /\ ReadXref(Doc(1)).offset[7] < ReadXref(Doc(1)).startxref

\* "<< /Length 0 >>\nstream\n\nendstream"
EmptyStreamBody ==
    <<"<", "<", " ", "/", "L", "e", "n", "g", "t", "h", " ", "0", " ", ">", ">",
      "\n", "s", "t", "r", "e", "a", "m", "\n", "\n", "e", "n", "d", "s", "t", "r",
      "e", "a", "m">>

\* C22 A page with zero items given to render_pdf does not make it fail: the
\* page gets a content-stream object with an empty stream, /Length 0, and a page
\* dictionary whose /Contents is that object, and the rest of the document is
\* built as for any page: the page tree counts and lists every page, the
\* cross-reference section has an entry for every object, and the trailer names
\* the catalog.
C22_EmptyPage ==
    \A c \in CallIds :
        (/\ Live(c)
         /\ st[c].entry = "render_pdf"
         /\ \E k \in 1..Len(st[c].pages) : st[c].pages[k] = <<>>
         /\ \A k \in 1..Len(st[c].pages) : \A i \in 1..Len(st[c].pages[k]) :
                CanEncode(st[c].pages[k][i].text)) =>
            LET s == st[c]
                P == Len(s.pages)
            IN  /\ s.pc # "raised"
                /\ \A k \in 1..Len(s.page_refs) : s.pages[k] = <<>> =>
                    /\ s.objects[s.page_refs[k][2] + 1] = EmptyStreamBody
                    /\ Serializing(c) =>
                        /\ IsPageDictionary(s.objects[s.page_refs[k][1] + 1])
                        /\ RefOfKey(s.objects[s.page_refs[k][1] + 1], K_Contents)
                             = s.page_refs[k][2]
                /\ Serializing(c) => Len(s.page_refs) = P
                /\ Returned(c) =>
                    /\ ReadTree(Doc(c)).count = P
                    /\ ReadTree(Doc(c)).kids = P
                    /\ ReadXref(Doc(c)).at_xref
                    /\ ReadXref(Doc(c)).count = (2 * P) + 4
                    /\ ReadXref(Doc(c)).size = (2 * P) + 4
                    /\ ReadXref(Doc(c)).root = (2 * P) + 3

\* render_pdf has returned the document of three pages, the first and the last
\* without items.
C22_Witness ==
    /\ Returned(1)
    /\ st[1].entry = "render_pdf"
    /\ Len(st[1].pages) = 3
    /\ st[1].pages[1] = <<>>
    /\ st[1].pages[2] # <<>>
    /\ st[1].pages[3] = <<>>

\* C23 The core does not validate arity and formats whatever is given: a
\* build_pdf_table call for a table with a row of more cells than there are
\* headers raises no error, and when it ends it has returned a document.
C23_LongRows ==
    \A c \in CallIds :
        (/\ Live(c)
         /\ st[c].entry = "build_pdf_table"
         /\ \E r \in 1..Len(st[c].rows) : Len(st[c].rows[r]) > Len(st[c].headers)) =>
            /\ ~(st[c].pc = "raised" /\ st[c].exc = "IndexError")
            /\ Ended(c) => (st[c].pc = "done" /\ st[c].result # <<>>)

\* C24 _paginate applied to an empty item sequence returns exactly one page,
\* which holds the single blank item ("", 10); for every input, empty or not,
\* it returns at least one page, and none of its pages is empty.
C24_PaginateEmpty ==
    \A c \in CallIds : Paginated(c) =>
        /\ Len(st[c].pages) >= 1
        /\ \A p \in 1..Len(st[c].pages) : st[c].pages[p] # <<>>
        /\ st[c].items = <<>> =>
            st[c].pages = << <<[text |-> <<>>, size |-> 10]>> >>

\* _paginate called with no item has returned.
C24_Witness ==
    /\ Paginated(1)
    /\ st[1].entry = "_paginate"
    /\ st[1].pc = "done"
    /\ st[1].items = <<>>
    /\ Len(st[1].pages) = 1

(***************************************************************************)
(* Services/token_store.py: access tokens with sliding expiry              *)
(***************************************************************************)

\* A reading of the clock (_utcnow) counts ticks; a timestamp stored in the
\* database ("%Y-%m-%d %H:%M:%S") counts whole seconds: the format has no place
\* for the fraction of a second the clock reads.
TicksPerSecond == 2

TOKEN_LIFETIME_SECONDS == 10 * 60

_CLEANUP_INTERVAL_SECONDS == 5 * 60

\* value.strftime(_TIMESTAMP_FORMAT): the fraction of the second is dropped.
_format_timestamp(value) == value \div TicksPerSecond

\* _parse_timestamp(raw): the instant at which the second written begins.
_parse_timestamp(raw) == raw * TicksPerSecond

\* now - timedelta(seconds = n)
SecondsBefore(now, n) == now - (n * TicksPerSecond)

\* The clock advances of the model: half a second, the interval of the cleanup
\* worker, one second less than the lifetime of a token.
Advances == {1, _CLEANUP_INTERVAL_SECONDS * TicksPerSecond,
             (TOKEN_LIFETIME_SECONDS - 1) * TicksPerSecond}

\* How many times the clock advances.
MaxAdvances == 4

\* The clock when the application starts: 1000 s.
StartClock == 1000 * TicksPerSecond

\* The token strings secrets.token_urlsafe draws, and the users.
TokenNames == {"t1", "t2"}

UserIds == {7, 8}

\* The table auth_tokens (token -> user_id, last_used), the clock, the time the
\* cleanup worker wakes, the tokens issued so far, the last operation with its
\* token, what it returned and whether that is a value other than None, for
\* each token the clock of the last validation that returned its user (none
\* yet: no entry), and the tokens a validation found expired.
InitAuth ==
    /\ auth = [tokens |-> <<>>, now |-> StartClock, advances |-> 0,
               wake |-> StartClock, issued |-> {}, op |-> "start",
               token |-> "", reply |-> NoneValue, ok |-> FALSE,
               validated |-> <<>>,
               rejected |-> {}]
    /\ st = AtRest
    /\ fetch = AtRest

\* Time passes.
Clock_Advance ==
    \E d \in Advances :
        /\ auth.advances < MaxAdvances
        /\ auth' = [auth EXCEPT !.now = @ + d, !.advances = @ + 1, !.op = "clock",
                                !.token = "", !.reply = NoneValue, !.ok = FALSE]

\* create_token(user_id): a token string not in use is drawn, and the row gets
\* the default of the column last_used, datetime('now').
create_token(user_id) ==
    \E token \in TokenNames \ auth.issued :
        auth' = [auth EXCEPT
                    !.tokens = (token :> [user_id   |-> user_id,
                                          last_used |-> _format_timestamp(auth.now)])
                               @@ @,
                    !.issued = @ \cup {token}, !.op = "create_token",
                    !.token = token, !.reply = token, !.ok = TRUE]

\* Without the rows of the tokens in gone.
Without(tokens, gone) == [t \in DOMAIN tokens \ gone |-> tokens[t]]

\* delete_token(token)
delete_token(token) ==
    /\ token \in DOMAIN auth.tokens
    /\ auth' = [auth EXCEPT !.tokens = Without(@, {token}),
                            !.validated = Without(@, {token}),
                            !.op = "delete_token", !.token = token,
                            !.reply = NoneValue, !.ok = FALSE]

\* validate_and_refresh(token) at the present clock.
validate_and_refresh(token) ==
    LET now    == auth.now
        cutoff == SecondsBefore(now, TOKEN_LIFETIME_SECONDS)
    IN  IF token \notin DOMAIN auth.tokens
        THEN auth' = [auth EXCEPT !.op = "validate_and_refresh", !.token = token,
                                  !.reply = NoneValue, !.ok = FALSE]
        ELSE IF _parse_timestamp(auth.tokens[token].last_used) <= cutoff
        THEN auth' = [auth EXCEPT !.tokens = Without(@, {token}),
                                  !.rejected = @ \cup {token},
                                  !.op = "validate_and_refresh", !.token = token,
                                  !.reply = NoneValue, !.ok = FALSE]
        ELSE auth' = [auth EXCEPT
                        !.tokens[token].last_used = _format_timestamp(now),
                        !.validated = (token :> now) @@ @,
                        !.op = "validate_and_refresh", !.token = token,
                        !.reply = auth.tokens[token].user_id, !.ok = TRUE]

\* purge_expired_tokens() at the present clock: last_used <= cutoff_str, two
\* timestamps of the same format compared as strings.
PurgedAt(tokens, now) ==
    {t \in DOMAIN tokens :
        tokens[t].last_used
            <= _format_timestamp(SecondsBefore(now, TOKEN_LIFETIME_SECONDS))}

\* _cleanup_loop, and start_worker for the first time: the worker purges, then
\* sleeps for the interval.
purge_expired_tokens ==
    /\ auth.now >= auth.wake
    /\ auth' = [auth EXCEPT
                    !.tokens = Without(@, PurgedAt(auth.tokens, auth.now)),
                    !.wake = auth.now + (_CLEANUP_INTERVAL_SECONDS * TicksPerSecond),
                    !.op = "purge_expired_tokens", !.token = "",
                    !.reply = Cardinality(PurgedAt(auth.tokens, auth.now)),
                    !.ok = TRUE]

NextAuth ==
    \/ Clock_Advance /\ UNCHANGED <<st, fetch>>
    \/ \E u \in UserIds : create_token(u) /\ UNCHANGED <<st, fetch>>
    \/ \E t \in TokenNames : delete_token(t) /\ UNCHANGED <<st, fetch>>
    \/ \E t \in TokenNames : validate_and_refresh(t) /\ UNCHANGED <<st, fetch>>
    \/ purge_expired_tokens /\ UNCHANGED <<st, fetch>>

SpecAuth == InitAuth /\ [][NextAuth]_vars

\* The token exists and its last_used is later than now - 600 s.
ValidAt(tokens, token, now) ==
    /\ token \in DOMAIN tokens
    /\ _parse_timestamp(tokens[token].last_used) > SecondsBefore(now, 600)

\* validate_and_refresh returns the user id exactly when the token is valid at
\* the time of the call.
C25_Accepts ==
    auth'.op = "validate_and_refresh" =>
        /\ auth'.ok = ValidAt(auth.tokens, auth'.token, auth.now)
        /\ auth'.ok => auth'.reply = auth.tokens[auth'.token].user_id
        /\ ~auth'.ok => auth'.reply = NoneValue

\* A validation that returns the user id sets last_used to now.
C25_Refreshes ==
    (auth'.op = "validate_and_refresh" /\ auth'.ok) =>
        /\ auth'.token \in DOMAIN auth'.tokens
        /\ _parse_timestamp(auth'.tokens[auth'.token].last_used) = auth.now

\* A token found expired is deleted.
C25_Deletes ==
    (auth'.op = "validate_and_refresh" /\ ~auth'.ok) =>
        auth'.token \notin DOMAIN auth'.tokens

\* purge_expired_tokens deletes exactly the tokens a validation at the same
\* clock would reject, and leaves the others as they are.
C25_Purge ==
    auth'.op = "purge_expired_tokens" =>
        /\ DOMAIN auth'.tokens
             = {t \in DOMAIN auth.tokens : ValidAt(auth.tokens, t, auth.now)}
        /\ \A t \in DOMAIN auth'.tokens : auth'.tokens[t] = auth.tokens[t]

\* A token whose last successful validation is less than 600 s old is valid.
C25_Window ==
    \A t \in DOMAIN auth.validated :
        auth.now - auth.validated[t] < 600 * TicksPerSecond
            => ValidAt(auth.tokens, t, auth.now)

\* A token once found expired is in the table no more.
C25_Rejected == \A t \in auth.rejected : t \notin DOMAIN auth.tokens

\* C25 Sliding token expiry: validate_and_refresh returns the user id exactly
\* when the token exists and its last_used is later than now - 600 s, and then
\* sets last_used to now, so that a token validated at least once in every
\* 10-minute window is never rejected; a token found expired is deleted and
\* rejected, and rejected on every later validation; purge_expired_tokens at
\* the same now deletes exactly the tokens validate_and_refresh would reject as
\* expired and never one it would accept.
C25_SlidingExpiry ==
    /\ [][C25_Accepts /\ C25_Refreshes /\ C25_Deletes /\ C25_Purge]_vars
    /\ [](C25_Window /\ C25_Rejected)

\* The call lays out a table all of whose rows have as many cells as there are
\* headers.
HeaderArity(c) ==
    /\ TableLaidOut(c)
    /\ \A r \in 1..Len(st[c].rows) : Len(st[c].rows[r]) = Len(st[c].headers)

\* Every line has the given length, and in every line the three characters
\* after each column but the last are " | " or "-+-".
LinesAligned(lines, widths, length) ==
    \A k \in 1..Len(lines) :
        /\ Len(lines[k]) = length
        /\ \A j \in 1..(Len(widths) - 1) :
            SubSeq(lines[k], ColumnStart(widths, j) + widths[j],
                   ColumnStart(widths, j) + widths[j] + 2)
                \in {<<" ", "|", " ">>, <<"-", "+", "-">>}

\* C26 (as claimed) Every line of _build_table_lines for a table whose rows have
\* header arity has the length sum(widths) + 3 * (columns - 1), the separator
\* being as long as every formatted row, and the column boundaries are at the
\* same places in all lines.
C26_AsClaimed ==
    \A c \in CallIds : HeaderArity(c) =>
        LinesAligned(st[c].lines, st[c].col_widths,
                     SumTo(st[c].col_widths, Len(st[c].col_widths))
                        + (3 * (Len(st[c].headers) - 1)))

\* C26 (amended) Every line of _build_table_lines for a table whose rows have
\* header arity has the same length: sum(widths) + 3 * (columns - 1) for a table
\* of at least one column, 0 for a table without columns; the separator is as
\* long as every formatted row, and the column boundaries " | " and "-+-" are
\* at the same places in all lines.
C26_LineLengths ==
    \A c \in CallIds : HeaderArity(c) =>
        LET n == Len(st[c].headers)
        IN  /\ Len(st[c].col_widths) = n
            /\ LinesAligned(st[c].lines, st[c].col_widths,
                            IF n = 0 THEN 0
                            ELSE SumTo(st[c].col_widths, n) + (3 * (n - 1)))
            /\ \A k \in 1..Len(st[c].lines) :
                Len(st[c].lines[k]) = Len(st[c].separator)

\* The seven lines of a table of two columns are complete, each of 4 + 3 + 26
\* characters.
C26_Witness ==
    /\ HeaderArity(1)
    /\ st[1].pc = "build_items"
    /\ st[1].rows = <<ExampleRow2, MultiLineRow>>
    /\ Len(st[1].lines) = 7
    /\ \A k \in 1..7 : Len(st[1].lines[k]) = 33

\* The vertical position a text-show command writes: the number after the
\* horizontal position, "BT /F1 <size> Tf 40 <y> Td (...".
WrittenY(cmd) == NumberOf(SplitAt(cmd, " ")[6])

\* The commands drawn for the page write positions that the clamp at the margin
\* has not changed, all at least 44 and strictly decreasing.
PositionsDescend(page, cmds) ==
    /\ Len(cmds) = Len(page)
    /\ \A i \in 1..Len(page) :
        /\ WrittenY(cmds[i])
              = ((PAGE_HEIGHT - MARGIN) - SizesTo(page, i)) - (4 * (i - 1))
        /\ WrittenY(cmds[i]) >= MARGIN + 4
        /\ WrittenY(cmds[i]) >= 44
        /\ i > 1 => WrittenY(cmds[i]) < WrittenY(cmds[i - 1])

\* C27 For every page _paginate produces from items of sizes 16, 12 and 10, the
\* vertical positions _build_content_stream writes are strictly decreasing down
\* the page and all at least 44: max(y, margin) never changes a position and no
\* two items of a page are drawn at the same position.  This holds of the
\* commands of the page and of the content stream render_pdf stores for it.
C27_Positions ==
    \A c \in CallIds :
        (Paginated(c) /\ \A i \in 1..Len(st[c].items) : st[c].items[i].size \in {16, 12, 10})
            => \A k \in 1..Len(st[c].pages) :
                /\ PositionsDescend(st[c].pages[k],
                                    Commands(st[c].pages[k], PAGE_HEIGHT - MARGIN))
                /\ k <= Len(st[c].page_refs)
                      => PositionsDescend(st[c].pages[k], CommandsOf(c, k))

\* _paginate has returned a first page filled to the bottom margin: its last
\* item is drawn at 44.
C27_Witness ==
    /\ Paginated(1)
    /\ st[1].entry = "_paginate"
    /\ Len(st[1].pages) >= 2
    /\ WrittenY(Commands(st[1].pages[1], PAGE_HEIGHT - MARGIN)[Len(st[1].pages[1])]) = 44

\* The content stream of a full page of a long table has been stored.
C27_WitnessStored ==
    /\ Paginated(1)
    /\ st[1].entry = "build_pdf_table"
    /\ Len(st[1].pages) >= 2
    /\ Len(st[1].page_refs) >= 1
    /\ WrittenY(CommandsOf(1, 1)[Len(st[1].pages[1])]) = 48

\* The slots of the object table of call c that were reserved with the
\* placeholder None: the page dictionaries, the page tree and the catalog.
Reserved(s) ==
    {s.page_refs[k][1] + 1 : k \in 1..Len(s.page_refs)}
        \cup (IF s.pc \in {"render_pdf", "render_pages"} THEN {}
              ELSE {s.pages_id + 1, s.catalog_id + 1})

\* One step of a call of render_pdf: a slot of the object table changes only
\* from the placeholder to a body, only while render_pdf fills the bodies, when
\* the table has its final length; a slot that holds a body keeps it.
C28_FilledOnce ==
    \A c \in CallIds : (Live(c) /\ st[c].pc # "render_pdf") =>
        /\ Len(st'[c].objects) >= Len(st[c].objects)
        /\ st[c].pc \notin {"render_pdf", "render_pages"}
              => Len(st'[c].objects) = Len(st[c].objects)
        /\ \A i \in 1..Len(st[c].objects) :
              st'[c].objects[i] # st[c].objects[i] =>
                  /\ st[c].pc \in {"fill_pages", "fill_page"}
                  /\ i \in Reserved(st[c])
                  /\ st[c].objects[i] = NoneValue
                  /\ st'[c].objects[i] # NoneValue

\* When _build_pdf_bytes runs, the slots 1..N all hold a body, and every object
\* written so far has bytes between "<i> 0 obj\n" and "endobj\n".
C28_NoPlaceholder ==
    \A c \in CallIds : Serializing(c) =>
        /\ \A i \in 2..Len(st[c].objects) :
              st[c].objects[i] # NoneValue /\ st[c].objects[i] # <<>>
        /\ Reserved(st[c]) \subseteq 2..Len(st[c].objects)
        /\ st[c].pc # "_build_pdf_bytes" =>
              \A i \in 1..(st[c].obj_i - 1) :
                  /\ OccursAt(st[c].output, st[c].offsets[i], Encode(Str(i) \o T_Obj))
                  /\ ~OccursAt(st[c].output, st[c].offsets[i],
                               Encode(Str(i) \o T_Obj \o <<"\n">> \o T_EndObj))
                  /\ ~OccursAt(st[c].output, st[c].offsets[i],
                               Encode(Str(i) \o T_Obj \o T_EndObj))

\* C28 Every slot reserved with a placeholder body (each page dictionary, the
\* page tree, the catalog) is filled exactly once, after all ids are allocated
\* and before serialization starts; when _build_pdf_bytes runs no slot 1..N
\* holds the placeholder, and no object is emitted with an empty body.
C28_Placeholders == [][C28_FilledOnce]_vars /\ []C28_NoPlaceholder

\* render_pdf is about to serialize a document of four pages: its eleven slots,
\* six of them reserved with the placeholder, hold bodies.
C28_Witness ==
    /\ Live(1)
    /\ st[1].entry = "render_pdf"
    /\ st[1].pc = "_build_pdf_bytes"
    /\ Len(st[1].objects) = 12
    /\ Cardinality(Reserved(st[1])) = 6
    /\ \A i \in Reserved(st[1]) : st[1].objects[i] # NoneValue

\* The content-stream object of page k of call c has been written whole: the
\* object after it has begun.
StreamWritten(c, k) ==
    /\ Serializing(c)
    /\ st[c].pc # "_build_pdf_bytes"
    /\ k \in 1..Len(st[c].page_refs)
    /\ st[c].page_refs[k][2] + 1 <= Len(st[c].offsets)

\* What a reader finds at the content-stream object id in the bytes written:
\* the number after "<< /Length ", the position of the first byte after
\* "stream\n" and the position of the "\nendstream\nendobj\n" that ends the
\* object where the next object begins.
ReadStream(bytes, offsets, id) ==
    LET body   == BodyAt(offsets[id], id)
        number == body + Len(T_Length)
        begin  == number + DigitRun(bytes, number) + Len(T_Stream)
        tail   == T_EndStream \o <<"\n">> \o T_EndObj
        end    == offsets[id + 1] - Len(tail)
    IN  [framed |-> /\ OccursAt(bytes, body, Encode(T_Length))
                    /\ OccursAt(bytes, number + DigitRun(bytes, number), Encode(T_Stream))
                    /\ OccursAt(bytes, end, Encode(tail)),
         length |-> NumberAt(bytes, number),
         begin  |-> begin,
         end    |-> end]

\* C29 The /Length written in each content-stream object is the exact number of
\* bytes emitted between "stream\n" and "\nendstream" of that object, for every
\* text the encoder accepts, the characters that Latin-1 writes as one byte
\* above 127 included.
C29_StreamLength ==
    \A c \in CallIds : \A k \in 1..MaxPages :
        StreamWritten(c, k) =>
            LET r == ReadStream(st[c].output, st[c].offsets, st[c].page_refs[k][2])
            IN  /\ r.framed
                /\ r.length = r.end - r.begin
                /\ r.length = Len(StreamOf(st[c].objects[st[c].page_refs[k][2] + 1]))

\* The document of a table with the cell José has been returned: the byte
\* 233 is in its content stream, whose /Length counts it once.
C29_Witness ==
    /\ Returned(1)
    /\ st[1].rows = <<AccentRow>>
    /\ StreamWritten(1, 1)
    /\ LET r == ReadStream(st[1].output, st[1].offsets, st[1].page_refs[1][2])
       IN  /\ \E p \in r.begin..(r.end - 1) : st[1].output[p + 1] = 233
           /\ r.length = r.end - r.begin


(***************************************************************************)
(* fetch_all of Services/export_fetch.py over list_events of               *)
(* Services/events.py.  fetch.records is the sequence of the ids of the    *)
(* matching records in the order of the query; other requests insert and   *)
(* delete records while fetch_all runs, each statement of list_events      *)
(* seeing the table as it is when the statement runs (the connection of    *)
(* get_db opens no transaction for a SELECT).                              *)
(***************************************************************************)

\* export_fetch.py line 11
PAGE_SIZE == 200

\* Insertions and deletions by other requests during one call of fetch_all.
MaxChanges == 2

\* The numbers of matching records when fetch_all is called.
RecordCounts == {0, 1, 2, PAGE_SIZE, PAGE_SIZE + 1, (2 * PAGE_SIZE) + 1}

MaxRecords == ((2 * PAGE_SIZE) + 1) + MaxChanges

\* From this page on the offset is beyond every table the model reaches: every
\* later request selects nothing, and the model does not tell these pages
\* apart.
SaturatedPage == (MaxRecords \div PAGE_SIZE) + 2

\* apply_pagination: the offset of a page.
apply_pagination(page, page_size) == Max(page - 1, 0) * page_size

\* LIMIT page_size OFFSET offset of a sequence, and the slice
\* filtered[start_index : start_index + page_size].
PageOf(seq, page, page_size) ==
    LET offset == apply_pagination(page, page_size)
        last   == IF offset + page_size <= Len(seq) THEN offset + page_size
                  ELSE Len(seq)
    IN  SubSeq(seq, offset + 1, last)

\* The elements of a sequence.
Range(seq) == {seq[i] : i \in 1..Len(seq)}

\* A call of fetch_all begins: results = [], page = 1; the query has the day
\* filter (start_days) or not.
InitFetch ==
    /\ \E n \in RecordCounts, day \in BOOLEAN :
        fetch = [records    |-> [i \in 1..n |-> i],
                 next_id    |-> n + 1,
                 changes    |-> 0,
                 changed    |-> FALSE,
                 day_filter |-> day,
                 pc         |-> "query_resources",
                 page       |-> 1,
                 total      |-> 0,
                 event_ids  |-> <<>>,
                 results    |-> <<>>,
                 log        |-> <<>>]
    /\ st = AtRest
    /\ auth = AtRest

\* list_events without the day filter, lines 135-136: SELECT COUNT(*).
list_events_Count ==
    /\ fetch.pc = "query_resources"
    /\ ~fetch.day_filter
    /\ fetch' = [fetch EXCEPT !.pc = "paginated_query", !.total = Len(fetch.records)]

\* list_events without the day filter, lines 137-140: LIMIT ? OFFSET ?.
list_events_Select ==
    /\ fetch.pc = "paginated_query"
    /\ fetch' = [fetch EXCEPT !.pc = "get_event",
                              !.event_ids = PageOf(fetch.records, fetch.page, PAGE_SIZE)]

\* list_events with the day filter, lines 130-133: the ids of all matching
\* events, the total being set after filtering.
list_events_AllIds ==
    /\ fetch.pc = "query_resources"
    /\ fetch.day_filter
    /\ fetch' = [fetch EXCEPT !.pc = "get_event", !.total = 0,
                              !.event_ids = fetch.records]

\* list_events line 142, get_event of each id (HTTPException 404 for an id that
\* is no longer in the table), lines 144-149 for the day filter, and fetch_all
\* lines 36-39: extend the results, stop or go on to the next page.
fetch_all_Page ==
    /\ fetch.pc = "get_event"
    /\ LET f       == fetch
           events  == f.event_ids
           items   == IF f.day_filter THEN PageOf(events, f.page, PAGE_SIZE) ELSE events
           total   == IF f.day_filter THEN Len(events) ELSE f.total
           results == f.results \o items
           entry   == [page |-> f.page, page_size |-> PAGE_SIZE, items |-> Len(items),
                       total |-> total, collected |-> Len(results)]
       IN  fetch' =
             IF ~(Range(events) \subseteq Range(f.records))
             THEN [f EXCEPT !.pc = "raised"]
             ELSE IF Len(results) >= total
             THEN [f EXCEPT !.pc = "done", !.results = results, !.total = total,
                            !.log = Append(@, entry)]
             ELSE IF f.page >= SaturatedPage
             THEN [f EXCEPT !.pc = "query_resources", !.results = results,
                            !.total = total]
             ELSE [f EXCEPT !.pc = "query_resources", !.results = results,
                            !.total = total, !.page = @ + 1,
                            !.log = Append(@, entry)]

\* Another request creates a matching record (create_event) that the query
\* sorts first or last.
Record_Insert(first) ==
    /\ fetch.pc \notin {"done", "raised"}
    /\ fetch.changes < MaxChanges
    /\ fetch' = [fetch EXCEPT !.records = IF first THEN <<fetch.next_id>> \o @
                                          ELSE Append(@, fetch.next_id),
                              !.next_id = @ + 1, !.changes = @ + 1,
                              !.changed = TRUE]

\* Another request deletes the first or the last matching record
\* (delete_event).
Record_Delete(first) ==
    /\ fetch.pc \notin {"done", "raised"}
    /\ fetch.changes < MaxChanges
    /\ fetch.records # <<>>
    /\ fetch' = [fetch EXCEPT !.records = IF first THEN Tail(@)
                                          ELSE SubSeq(@, 1, Len(@) - 1),
                              !.changes = @ + 1, !.changed = TRUE]

\* The steps of the call of fetch_all.
FetchStep ==
    /\ \/ list_events_Count
       \/ list_events_Select
       \/ list_events_AllIds
       \/ fetch_all_Page
    /\ UNCHANGED <<st, auth>>

NextFetch ==
    \/ list_events_Count /\ UNCHANGED <<st, auth>>
    \/ list_events_Select /\ UNCHANGED <<st, auth>>
    \/ list_events_AllIds /\ UNCHANGED <<st, auth>>
    \/ fetch_all_Page /\ UNCHANGED <<st, auth>>
    \/ \E first \in BOOLEAN : Record_Insert(first) /\ UNCHANGED <<st, auth>>
    \/ \E first \in BOOLEAN : Record_Delete(first) /\ UNCHANGED <<st, auth>>

\* The call of fetch_all keeps running: its next statement is executed.
SpecFetch == InitFetch /\ [][NextFetch]_vars /\ WF_vars(FetchStep)

\* fetch_all has returned the records of a table that no request changed during
\* the call: each matching record once, in the order of the query.
C30_ExactlyOnce ==
    (fetch.pc = "done" /\ ~fetch.changed) => fetch.results = fetch.records

\* The requests made so far are for the pages 1, 2, ... of 200 records; after
\* every request but the last the number collected was below the total the
\* request reported, and fetch_all has returned exactly when the number
\* collected reached the total of the last request.
C30_StopRule ==
    /\ \A i \in 1..Len(fetch.log) :
        /\ fetch.log[i].page = i
        /\ fetch.log[i].page_size = 200
        /\ fetch.log[i].items <= 200
        /\ i < Len(fetch.log) => fetch.log[i].collected < fetch.log[i].total
    /\ fetch.pc = "done" =>
        /\ fetch.log # <<>>
        /\ fetch.log[Len(fetch.log)].collected >= fetch.log[Len(fetch.log)].total
        /\ fetch.log[Len(fetch.log)].collected = Len(fetch.results)
    /\ (fetch.pc \notin {"done", "raised"} /\ fetch.log # <<>>) =>
        fetch.log[Len(fetch.log)].collected < fetch.log[Len(fetch.log)].total

\* The call of fetch_all has ended: it has returned, or get_event has raised.
C30_Ended == fetch.pc \in {"done", "raised"}

\* C30 fetch_all terminates for every finite result set and returns each
\* matching record exactly once in query order: it requests the pages 1, 2, ...
\* of 200 records and stops as soon as the number collected reaches the total
\* reported by the last query, also when the total changes between two page
\* requests.
C30_FetchAll == []C30_ExactlyOnce /\ []C30_StopRule /\ <>C30_Ended

\* The table is as large as it will ever be in this call, the page asked for is
\* beyond it and fewer records were collected than it holds: every request
\* from here on selects nothing and reports the same total.
C30_LoopsForever ==
    /\ fetch.pc = "query_resources"
    /\ fetch.changes = MaxChanges
    /\ apply_pagination(fetch.page, PAGE_SIZE) >= Len(fetch.records)
    /\ Len(fetch.results) < Len(fetch.records)

====
